---- MODULE Spec2Model ----
(***************************************************************************)
(* Model of the request translator of Google_APIGEE_Bot:                   *)
(*   common/parsers.py        RequestParser (regex / keyword extraction)   *)
(*   services/apigee_service.py  ApigeeService.analyze_request             *)
(*   services/template_generator.py  ApigeeTemplates.generate_javascript_code *)
(* Texts are TLA+ strings; a character is a string of length 1.  Every     *)
(* regular expression of the source is modelled by an operator that        *)
(* computes what Python's re.search returns for it: the leftmost match,    *)
(* greedy and lazy quantifiers resolved in backtracking order.             *)
(***************************************************************************)
EXTENDS Integers, Sequences, FiniteSets, TLC

VARIABLES
    message,    \* the request text
    pc,         \* the function that has returned ("start": none yet)
    ret,        \* what it returned
    config,     \* the config dict handed to the renderers and the packager
    environ,    \* os.environ: the APIGEE_TOKEN entry
    requests,   \* the HTTP requests the service has received
    uploads,    \* the import requests sent to the Apigee API
    agents,     \* the two agent objects: set up or not, and their memories
    reply       \* what the language model does with the prompt of the call

serverVars == <<environ, requests, uploads, agents, reply>>

vars == <<message, pc, ret, config, serverVars>>

(***************************************************************************)
(* Bounds of the model.                                                    *)
(***************************************************************************)
\* Every generated message is a concatenation of at most MaxFrags fragments.
MaxFrags == 3

\* A policy list handed to the renderers has at most MaxPolicies entries.
MaxPolicies == 2

(***************************************************************************)
(* Characters and strings (Python str).                                    *)
(***************************************************************************)
Ch(s, i) == SubSeq(s, i, i)

CharSet(s) == {Ch(s, i) : i \in 1..Len(s)}

LowerLetters == "abcdefghijklmnopqrstuvwxyz"

UpperLetters == "ABCDEFGHIJKLMNOPQRSTUVWXYZ"

Digits == CharSet("0123456789")

UpperSet == CharSet(UpperLetters)

Letters == CharSet(LowerLetters) \cup UpperSet

\* \s of Python's re for the ASCII characters a TLA+ string can hold.
Whitespace == {" ", "\t", "\n", "\r", "\f"}

LowerOf ==
    [c \in UpperSet |->
        Ch(LowerLetters, CHOOSE i \in 1..26 : Ch(UpperLetters, i) = c)]

LowerChar(c) == IF c \in UpperSet THEN LowerOf[c] ELSE c

\* str.lower(), character by character (the text is halved to keep the
\* evaluation shallow)
RECURSIVE Lower(_)
Lower(s) ==
    IF Len(s) = 0 THEN ""
    ELSE IF Len(s) = 1 THEN LowerChar(s)
    ELSE LET h == Len(s) \div 2
         IN Lower(SubSeq(s, 1, h)) \o Lower(SubSeq(s, h + 1, Len(s)))

\* lit occurs in s at index i
At(s, lit, i) ==
    /\ i >= 1
    /\ i + Len(lit) - 1 <= Len(s)
    /\ SubSeq(s, i, i + Len(lit) - 1) = lit

\* Python's  lit in s
Contains(s, lit) == \E i \in 1..(Len(s) - Len(lit) + 1) : At(s, lit, i)

Min(S) == CHOOSE x \in S : \A y \in S : x <= y

Max(S) == CHOOSE x \in S : \A y \in S : x >= y

(***************************************************************************)
(* RequestParser.detect_policies                                           *)
(***************************************************************************)
ApiKeyPhrases == {"api key", "apikey", "authentication", "verify api key"}

CorsPhrases == {"cors"}

QuotaPhrases == {"quota", "rate limit", "requests per hour", "requests per day"}

SpikePhrases == {"spike arrest", "spike", "burst", "requests per sec", "per second"}

JavaScriptPhrases == {"javascript", "transform", "modify", "combine", "js policy"}

AssignMessagePhrases == {"assign message", "set variable", "add header", "set header"}

\* any(phrase in message_lower for phrase in phrases)
AnyPhrase(message_lower, phrases) ==
    \E phrase \in phrases : Contains(message_lower, phrase)

\* the policy kinds in the order of the if-blocks, and the phrases of each
KindOrder ==
    <<"VerifyAPIKey", "CORS", "Quota", "SpikeArrest", "JavaScript", "AssignMessage">>

PhrasesOf(kind) ==
    CASE kind = "VerifyAPIKey" -> ApiKeyPhrases
      [] kind = "CORS" -> CorsPhrases
      [] kind = "Quota" -> QuotaPhrases
      [] kind = "SpikeArrest" -> SpikePhrases
      [] kind = "JavaScript" -> JavaScriptPhrases
      [] kind = "AssignMessage" -> AssignMessagePhrases

\* the kinds of the list order that have a phrase in text
Detected(text, order) ==
    SelectSeq(order, LAMBDA kind : AnyPhrase(text, PhrasesOf(kind)))

\* Mutant: the SpikeArrest block stands before the Quota block.
detect_policies_spike_first(msg) ==
    Detected(Lower(msg),
             <<"VerifyAPIKey", "CORS", "SpikeArrest", "Quota", "JavaScript",
               "AssignMessage">>)

\* Mutant: the phrases are looked up in the message as typed.
detect_policies_case_sensitive(msg) == Detected(msg, KindOrder)

\* Mutant: the SpikeArrest block is an elif of the Quota block.
detect_policies_exclusive(msg) ==
    LET message_lower == Lower(msg)
    IN SelectSeq(KindOrder,
                 LAMBDA kind :
                     /\ AnyPhrase(message_lower, PhrasesOf(kind))
                     /\ kind = "SpikeArrest" =>
                            ~AnyPhrase(message_lower, QuotaPhrases))

detect_policies(msg) ==
    LET message_lower == Lower(msg)
        Append_if(policies, phrases, kind) ==
            IF AnyPhrase(message_lower, phrases) THEN Append(policies, kind)
            ELSE policies
        p1 == Append_if(<<>>, ApiKeyPhrases, "VerifyAPIKey")
        p2 == Append_if(p1, CorsPhrases, "CORS")
        p3 == Append_if(p2, QuotaPhrases, "Quota")
        p4 == Append_if(p3, SpikePhrases, "SpikeArrest")
        p5 == Append_if(p4, JavaScriptPhrases, "JavaScript")
        p6 == Append_if(p5, AssignMessagePhrases, "AssignMessage")
    IN p6

(***************************************************************************)
(* Building blocks of the regular expressions (Python re.search).          *)
(***************************************************************************)
NoMatch == [ok |-> FALSE, group |-> ""]

Match(g) == [ok |-> TRUE, group |-> g]

\* A character class [...] or [^...]: its characters, and whether it is negated.
InClass(c, class) == (c \in class.chars) # class.neg

\* \s
SpaceClass == [neg |-> FALSE, chars |-> Whitespace]

\* [^\s]
NonSpaceClass == [neg |-> TRUE, chars |-> Whitespace]

\* \d
DigitClass == [neg |-> FALSE, chars |-> Digits]

\* [a-zA-Z0-9\-_]
NameClass == [neg |-> FALSE, chars |-> Letters \cup Digits \cup {"-", "_"}]

\* [a-zA-Z0-9\-_/]
PathClass == [neg |-> FALSE, chars |-> Letters \cup Digits \cup {"-", "_", "/"}]

\* [^\s,;.\s]
HostClass == [neg |-> TRUE, chars |-> Whitespace \cup {",", ";", "."}]

\* [a-zA-Z0-9\-_./:]
UrlClass ==
    [neg |-> FALSE, chars |-> Letters \cup Digits \cup {"-", "_", ".", "/", ":"}]

\* [^.]
NonDotClass == [neg |-> TRUE, chars |-> {"."}]

\* Index of the last character of the longest run of characters of the class in s that
\* starts at i (i - 1 when there is none): a greedy  [class]*  at i.
SpanEnd(s, i, class) ==
    CHOOSE j \in (i - 1)..Len(s) :
        /\ \A k \in i..j : InClass(Ch(s, k), class)
        /\ j = Len(s) \/ ~InClass(Ch(s, j + 1), class)

\* "." matches every character but a newline: s[a..b] can be matched by .*?
NoNewline(s, a, b) == \A k \in a..b : Ch(s, k) # "\n"

\* lit\s+([class]+) matches at i  (the class holds no whitespace)
LitGroupAt(s, lit, i, minSpace, class) ==
    /\ At(s, lit, i)
    /\ LET a == i + Len(lit)
           b == SpanEnd(s, a, SpaceClass)
       IN /\ b - a + 1 >= minSpace
          /\ b + 1 <= Len(s)
          /\ InClass(Ch(s, b + 1), class)

\* its group
LitGroupOf(s, lit, i, class) ==
    LET b == SpanEnd(s, i + Len(lit), SpaceClass)
    IN SubSeq(s, b + 1, SpanEnd(s, b + 1, class))

\* re.search(r'lit\s+([class]+)', s)
SearchLitGroup(s, lit, class) ==
    LET I == {i \in 1..Len(s) : LitGroupAt(s, lit, i, 1, class)}
    IN IF I = {} THEN NoMatch ELSE Match(LitGroupOf(s, lit, Min(I), class))

\* (?:a|b|...) matches at i; the alternatives of the source never match at
\* the same index, so the order of the alternation decides nothing.
AltAt(s, alts, i) == \E lit \in alts : At(s, lit, i)

AltEnd(s, alts, i) == i + Len(CHOOSE lit \in alts : At(s, lit, i))

(***************************************************************************)
(* RequestParser.extract_proxy_details: the proxy name.                    *)
(***************************************************************************)
\* re.search(r'create.*?(?:proxy|api).*?named\s+([a-zA-Z0-9\-_]+)', s)
\* From a "create" at i the first .*? stops at the first "proxy"/"api" of
\* the line, the second at the first "named\s+X" after it.
CreateNamedAt(s, i) ==
    /\ At(s, "create", i)
    /\ LET a == i + 6
           J == {j \in a..Len(s) :
                    AltAt(s, {"proxy", "api"}, j) /\ NoNewline(s, a, j - 1)}
       IN /\ J # {}
          /\ LET e == AltEnd(s, {"proxy", "api"}, Min(J))
             IN \E k \in e..Len(s) :
                    /\ NoNewline(s, e, k - 1)
                    /\ LitGroupAt(s, "named", k, 1, NameClass)

CreateNamedOf(s, i) ==
    LET a == i + 6
        J == {j \in a..Len(s) :
                 AltAt(s, {"proxy", "api"}, j) /\ NoNewline(s, a, j - 1)}
        e == AltEnd(s, {"proxy", "api"}, Min(J))
        K == {k \in e..Len(s) :
                 NoNewline(s, e, k - 1) /\ LitGroupAt(s, "named", k, 1, NameClass)}
    IN LitGroupOf(s, "named", Min(K), NameClass)

SearchCreateNamed(s) ==
    LET I == {i \in 1..Len(s) : CreateNamedAt(s, i)}
    IN IF I = {} THEN NoMatch ELSE Match(CreateNamedOf(s, Min(I)))

\* re.search(r'create.*?([a-zA-Z0-9\-_]+).*?(?:proxy|api)', s)
\* From a "create" at i the group starts at the first name character that
\* has a "proxy"/"api" starting after it on the same line; it is greedy, and
\* gives back characters until such a "proxy"/"api" can still follow.
LineEnd(s, a) == Min({k \in a..Len(s) : Ch(s, k) = "\n"} \cup {Len(s) + 1})

CreateGroupLast(s, i) ==
    LET a == i + 6
    IN {j \in a..(LineEnd(s, a) - 1) : AltAt(s, {"proxy", "api"}, j)}

CreateGroupAt(s, i) ==
    /\ At(s, "create", i)
    /\ CreateGroupLast(s, i) # {}
    /\ \E p \in (i + 6)..(Max(CreateGroupLast(s, i)) - 1) : InClass(Ch(s, p), NameClass)

CreateGroupOf(s, i) ==
    LET last == Max(CreateGroupLast(s, i))
        p == Min({x \in (i + 6)..(last - 1) : InClass(Ch(s, x), NameClass)})
        q == SpanEnd(s, p, NameClass)
    IN SubSeq(s, p, IF q < last THEN q ELSE last - 1)

SearchCreateGroup(s) ==
    LET I == {i \in 1..Len(s) : CreateGroupAt(s, i)}
    IN IF I = {} THEN NoMatch ELSE Match(CreateGroupOf(s, Min(I)))

\* name_patterns[k], searched in message_lower
NamePatternCount == 7

NameSearch(k, s) ==
    CASE k = 1 -> SearchLitGroup(s, "named", NameClass)
      [] k = 2 -> SearchLitGroup(s, "called", NameClass)
      [] k = 3 -> SearchLitGroup(s, "proxy", NameClass)
      [] k = 4 -> SearchCreateNamed(s)
      [] k = 5 -> SearchCreateGroup(s)
      [] k = 6 -> SearchLitGroup(s, "API proxy named", NameClass)
      [] k = 7 -> SearchLitGroup(s, "Apigee API proxy named", NameClass)

\* str.replace(' ', '-')
RECURSIVE ReplaceSpace(_)
ReplaceSpace(s) ==
    IF Len(s) = 0 THEN ""
    ELSE IF Len(s) = 1 THEN (IF s = " " THEN "-" ELSE s)
    ELSE LET h == Len(s) \div 2
         IN ReplaceSpace(SubSeq(s, 1, h)) \o ReplaceSpace(SubSeq(s, h + 1, Len(s)))

\* Mutant: nothing is consulted after the generic "proxy X" pattern.
NameFrom_generic_last(message_lower, k) ==
    LET K == {j \in k..3 : NameSearch(j, message_lower).ok}
    IN IF K = {} THEN "generated-proxy"
       ELSE ReplaceSpace(NameSearch(Min(K), message_lower).group)

\* the loop over name_patterns, from pattern k on
RECURSIVE NameFrom(_, _)
NameFrom(message_lower, k) ==
    IF k > NamePatternCount THEN "generated-proxy"
    ELSE LET match == NameSearch(k, message_lower)
         IN IF match.ok THEN ReplaceSpace(match.group)
            ELSE NameFrom(message_lower, k + 1)

(***************************************************************************)
(* RequestParser.extract_proxy_details: the target URL.                    *)
(* The URL patterns are searched in the message itself with re.IGNORECASE: *)
(* literals are compared in sl = Lower(s), groups are taken from s.        *)
(***************************************************************************)
\* https?://  at u: the index after it, 0 when it does not match
UrlBody(sl, u) ==
    IF At(sl, "https://", u) THEN u + 8
    ELSE IF At(sl, "http://", u) THEN u + 7
    ELSE 0

\* (https?://[class]+) matches at u
UrlAt(s, sl, u, class) ==
    LET b == UrlBody(sl, u)
    IN b > 0 /\ b <= Len(s) /\ InClass(Ch(s, b), class)

UrlOf(s, sl, u, class) == SubSeq(s, u, SpanEnd(s, UrlBody(sl, u), class))

\* lit\s*(https?://[^\s]+)  or  lit\s+(https?://[^\s]+)  at i; its group
LitUrlAt(s, sl, lit, i, minSpace) ==
    /\ At(sl, lit, i)
    /\ LET a == i + Len(lit)
           b == SpanEnd(s, a, SpaceClass)
       IN b - a + 1 >= minSpace /\ UrlAt(s, sl, b + 1, NonSpaceClass)

LitUrlOf(s, sl, lit, i) ==
    UrlOf(s, sl, SpanEnd(s, i + Len(lit), SpaceClass) + 1, NonSpaceClass)

\* re.search(r'lit\s*(https?://[^\s]+)', s, re.IGNORECASE), \s+ with minSpace 1
SearchLitUrl(s, sl, lit, minSpace) ==
    LET I == {i \in 1..Len(s) : LitUrlAt(s, sl, lit, i, minSpace)}
    IN IF I = {} THEN NoMatch ELSE Match(LitUrlOf(s, sl, lit, Min(I)))

\* re.search(r'target.*?endpoint.*?(?:be|is|:)\s*(https?://[^\s]+)', ...)
EndpointAlts == {"be", "is", ":"}

TargetEndpointStarts(s, sl, i) ==
    LET a == i + 6
        J == {j \in a..Len(s) : At(sl, "endpoint", j) /\ NoNewline(s, a, j - 1)}
    IN IF J = {} THEN {}
       ELSE LET e == Min(J) + 8
            IN {k \in e..Len(s) :
                   /\ NoNewline(s, e, k - 1)
                   /\ \E lit \in EndpointAlts : LitUrlAt(s, sl, lit, k, 0)}

SearchTargetEndpoint(s, sl) ==
    LET I == {i \in 1..Len(s) :
                 At(sl, "target", i) /\ TargetEndpointStarts(s, sl, i) # {}}
    IN IF I = {} THEN NoMatch
       ELSE LET k == Min(TargetEndpointStarts(s, sl, Min(I)))
                lit == CHOOSE l \in EndpointAlts : LitUrlAt(s, sl, l, k, 0)
            IN Match(LitUrlOf(s, sl, lit, k))

\* re.search(r'lit.*?(https?://[class]+)', s, re.IGNORECASE)
LazyUrlStarts(s, sl, lit, i, class) ==
    LET a == i + Len(lit)
    IN {u \in a..Len(s) : NoNewline(s, a, u - 1) /\ UrlAt(s, sl, u, class)}

SearchLazyUrl(s, sl, lit, class) ==
    LET I == {i \in 1..Len(s) :
                 At(sl, lit, i) /\ LazyUrlStarts(s, sl, lit, i, class) # {}}
    IN IF I = {} THEN NoMatch
       ELSE Match(UrlOf(s, sl, Min(LazyUrlStarts(s, sl, lit, Min(I), class)),
                        class))

\* re.search(r'(https?://[a-zA-Z0-9\-_./:]+(?:/[a-zA-Z0-9\-_./:]*)?)', ...)
\* "/" is itself in the class of the greedy run, so after the run the
\* optional group finds no "/" and matches empty.
SearchBareUrl(s, sl) ==
    LET U == {u \in 1..Len(s) : UrlAt(s, sl, u, UrlClass)}
    IN IF U = {} THEN NoMatch
       ELSE LET u == Min(U)
                q == SpanEnd(s, UrlBody(sl, u), UrlClass)
                r == IF q + 1 <= Len(s) /\ Ch(s, q + 1) = "/"
                     THEN SpanEnd(s, q + 2, UrlClass) ELSE q
            IN Match(SubSeq(s, u, r))

\* url_patterns[k], searched in message
UrlPatternCount == 7

UrlSearch(k, s, sl) ==
    CASE k = 1 -> SearchLitUrl(s, sl, "target endpoint should be:", 0)
      [] k = 2 -> SearchTargetEndpoint(s, sl)
      [] k = 3 -> SearchLitUrl(s, sl, "pointing to", 1)
      [] k = 4 -> SearchLazyUrl(s, sl, "target", NonSpaceClass)
      [] k = 5 -> SearchLazyUrl(s, sl, "backend", NonSpaceClass)
      [] k = 6 -> SearchLazyUrl(s, sl, "endpoint", HostClass)
      [] k = 7 -> SearchBareUrl(s, sl)

\* Mutant: nothing is stripped.
RStrip_none(s, chars) == s

\* str.rstrip(chars), str.lstrip(chars), str.strip(chars)
RStrip(s, chars) ==
    LET n == CHOOSE j \in 0..Len(s) :
                 /\ \A k \in (j + 1)..Len(s) : Ch(s, k) \in chars
                 /\ j = 0 \/ Ch(s, j) \notin chars
    IN SubSeq(s, 1, n)

LStrip(s, chars) ==
    LET n == CHOOSE j \in 1..(Len(s) + 1) :
                 /\ \A k \in 1..(j - 1) : Ch(s, k) \in chars
                 /\ j = Len(s) + 1 \/ Ch(s, j) \notin chars
    IN SubSeq(s, n, Len(s))

Strip(s, chars) == LStrip(RStrip(s, chars), chars)

\* len(url) > 10
MinUrlLen == 10

\* if len(url) > 10 and '.' in url
UrlAccepted(url) == Len(url) > MinUrlLen /\ Contains(url, ".")

DefaultTargetUrl == "https://mocktarget.apigee.net/json"

\* Mutant: a rejected candidate ends the search with the default.
UrlFrom_stop_at_first(msg, sl, k) ==
    LET K == {j \in k..UrlPatternCount : UrlSearch(j, msg, sl).ok}
        url == RStrip(UrlSearch(Min(K), msg, sl).group, {".", ",", ";"})
    IN IF K # {} /\ UrlAccepted(url) THEN url ELSE DefaultTargetUrl

\* the loop over url_patterns, from pattern k on
RECURSIVE UrlFrom(_, _, _)
UrlFrom(msg, sl, k) ==
    IF k > UrlPatternCount THEN DefaultTargetUrl
    ELSE LET match == UrlSearch(k, msg, sl)
             url == RStrip(match.group, {".", ",", ";"})
         IN IF match.ok /\ UrlAccepted(url) THEN url
            ELSE UrlFrom(msg, sl, k + 1)

(***************************************************************************)
(* RequestParser.extract_proxy_details: the base path, and the result.     *)
(***************************************************************************)
BasePathPatternCount == 4

BasePathSearch(k, s) ==
    CASE k = 1 -> SearchLitGroup(s, "base path", PathClass)
      [] k = 2 -> SearchLitGroup(s, "basepath", PathClass)
      [] k = 3 -> SearchLitGroup(s, "path", PathClass)
      [] k = 4 -> SearchLitGroup(s, "with base path", PathClass)

\* base_path = f"/{path}" with path = match.group(1).strip('/')
NormalisePath(group) == "/" \o Strip(group, {"/"})

\* Mutant: the default base path is "/generated-proxy", whatever the name.
BasePathFrom_fixed_default(message_lower, proxy_name, k) ==
    LET K == {j \in k..BasePathPatternCount : BasePathSearch(j, message_lower).ok}
    IN IF K = {} THEN "/generated-proxy"
       ELSE NormalisePath(BasePathSearch(Min(K), message_lower).group)

\* the loop over base_path_patterns, from pattern k on
RECURSIVE BasePathFrom(_, _, _)
BasePathFrom(message_lower, proxy_name, k) ==
    IF k > BasePathPatternCount THEN "/" \o proxy_name
    ELSE LET match == BasePathSearch(k, message_lower)
         IN IF match.ok THEN NormalisePath(match.group)
            ELSE BasePathFrom(message_lower, proxy_name, k + 1)

extract_proxy_details(msg) ==
    LET message_lower == Lower(msg)
        proxy_name == NameFrom(message_lower, 1)
    IN [name |-> proxy_name,
        target_url |-> UrlFrom(msg, message_lower, 1),
        base_path |-> BasePathFrom(message_lower, proxy_name, 1)]

(***************************************************************************)
(* RequestParser.extract_spike_arrest_rate                                 *)
(***************************************************************************)
\* index after a greedy \s* at a
SkipSpace(s, a) == SpanEnd(s, a, SpaceClass) + 1

\* \s*requests?\s*per\s*sec  matches at a
RequestsPerSecAt(s, a) ==
    LET p1 == SkipSpace(s, a)
        p2 == IF At(s, "s", p1 + 7) THEN p1 + 8 ELSE p1 + 7
        p3 == SkipSpace(s, p2)
    IN At(s, "request", p1) /\ At(s, "per", p3) /\ At(s, "sec", SkipSpace(s, p3 + 3))

\* \s*per\s*sec  matches at a
PerSecAt(s, a) ==
    LET p1 == SkipSpace(s, a)
    IN At(s, "per", p1) /\ At(s, "sec", SkipSpace(s, p1 + 3))

\* \s*per\s*second  matches at a
PerSecondAt(s, a) ==
    LET p1 == SkipSpace(s, a)
    IN At(s, "per", p1) /\ At(s, "second", SkipSpace(s, p1 + 3))

\* ps  matches at a
PsAt(s, a) == At(s, "ps", a)

\* \s*req.*?sec  matches at a
ReqSecAt(s, a) ==
    LET p1 == SkipSpace(s, a)
    IN /\ At(s, "req", p1)
       /\ \E k \in (p1 + 3)..Len(s) : NoNewline(s, p1 + 3, k - 1) /\ At(s, "sec", k)

\* what follows (\d+) in rate_patterns[k] matches at a
DigitsTailAt(k, s, a) ==
    CASE k = 1 -> RequestsPerSecAt(s, a)
      [] k = 2 -> PerSecAt(s, a)
      [] k = 3 -> PerSecondAt(s, a)
      [] k = 4 -> PsAt(s, a)
      [] k = 6 -> ReqSecAt(s, a)

\* re.search(rate_patterns[k], s) for the patterns that begin with (\d+):
\* the leftmost run of digits that the rest of the pattern follows
SearchDigitsThen(k, s) ==
    LET I == {i \in 1..Len(s) :
                 /\ InClass(Ch(s, i), DigitClass)
                 /\ DigitsTailAt(k, s, SpanEnd(s, i, DigitClass) + 1)}
    IN IF I = {} THEN NoMatch
       ELSE Match(SubSeq(s, Min(I), SpanEnd(s, Min(I), DigitClass)))

\* re.search(r'spike arrest.*?(\d+)', s)
SpikeArrestDigits(s, i) ==
    {d \in (i + 12)..Len(s) : NoNewline(s, i + 12, d - 1) /\ InClass(Ch(s, d), DigitClass)}

SearchSpikeArrestDigits(s) ==
    LET I == {i \in 1..Len(s) :
                 At(s, "spike arrest", i) /\ SpikeArrestDigits(s, i) # {}}
    IN IF I = {} THEN NoMatch
       ELSE LET d == Min(SpikeArrestDigits(s, Min(I)))
            IN Match(SubSeq(s, d, SpanEnd(s, d, DigitClass)))

\* rate_patterns[k], searched in message_lower
RatePatternCount == 6

\* Mutant: 'spike arrest.*?(\d+)' is tried first, '(\d+)\s*requests?...' fifth.
RateSearch_spike_arrest_first(k, s) ==
    IF k = 1 THEN SearchSpikeArrestDigits(s)
    ELSE IF k = 5 THEN SearchDigitsThen(1, s)
    ELSE SearchDigitsThen(k, s)

RateSearch(k, s) ==
    CASE k = 5 -> SearchSpikeArrestDigits(s)
      [] OTHER -> SearchDigitsThen(k, s)

DefaultRate == "10ps"

\* Mutant: only the four patterns with a per-second unit are tried.
RateFrom_unit_patterns(message_lower, k) ==
    LET K == {j \in k..4 : RateSearch(j, message_lower).ok}
    IN IF K = {} THEN DefaultRate
       ELSE RateSearch(Min(K), message_lower).group \o "ps"

\* the loop over rate_patterns, from pattern k on
RECURSIVE RateFrom(_, _)
RateFrom(message_lower, k) ==
    IF k > RatePatternCount THEN DefaultRate
    ELSE LET match == RateSearch(k, message_lower)
         IN IF match.ok THEN match.group \o "ps"
            ELSE RateFrom(message_lower, k + 1)

extract_spike_arrest_rate(msg) == RateFrom(Lower(msg), 1)

(***************************************************************************)
(* RequestParser.extract_transformation_intent                             *)
(***************************************************************************)
\* lit\s+([^.]+)  matches at i.  [^.] also matches whitespace: when the
\* whitespace after lit is followed by "." or by the end of the text, \s+
\* gives its last character back to the group.
IntentAt(s, lit, i) ==
    /\ At(s, lit, i)
    /\ LET a == i + Len(lit)
           b == SpanEnd(s, a, SpaceClass)
       IN \/ b >= a /\ b + 1 <= Len(s) /\ InClass(Ch(s, b + 1), NonDotClass)
          \/ b >= a + 1

IntentOf(s, lit, i) ==
    LET a == i + Len(lit)
        b == SpanEnd(s, a, SpaceClass)
    IN IF b + 1 <= Len(s) /\ InClass(Ch(s, b + 1), NonDotClass)
       THEN SubSeq(s, b + 1, SpanEnd(s, b + 1, NonDotClass))
       ELSE Ch(s, b)

\* re.search(r'lit\s+([^.]+)', s)
SearchIntent(s, lit) ==
    LET I == {i \in 1..Len(s) : IntentAt(s, lit, i)}
    IN IF I = {} THEN NoMatch ELSE Match(IntentOf(s, lit, Min(I)))

\* re.search(r'javascript.*?(?:to|that)\s+([^.]+)', s)
JavascriptAlts == {"to", "that"}

JavascriptToStarts(s, i) ==
    LET a == i + 10
    IN {k \in a..Len(s) :
           /\ NoNewline(s, a, k - 1)
           /\ \E lit \in JavascriptAlts : IntentAt(s, lit, k)}

SearchJavascriptTo(s) ==
    LET I == {i \in 1..Len(s) :
                 At(s, "javascript", i) /\ JavascriptToStarts(s, i) # {}}
    IN IF I = {} THEN NoMatch
       ELSE LET k == Min(JavascriptToStarts(s, Min(I)))
                lit == CHOOSE l \in JavascriptAlts : IntentAt(s, l, k)
            IN Match(IntentOf(s, lit, k))

\* transformation_patterns[k], searched in message.lower()
IntentPatternCount == 5

IntentSearch(k, s) ==
    CASE k = 1 -> SearchIntent(s, "combine")
      [] k = 2 -> SearchIntent(s, "transform")
      [] k = 3 -> SearchIntent(s, "modify")
      [] k = 4 -> SearchIntent(s, "add")
      [] k = 5 -> SearchJavascriptTo(s)

DefaultIntent == "custom data transformation"

\* Mutant: the last pattern of the list that matches wins.
IntentFrom_last_match(message_lower, k) ==
    LET K == {j \in k..IntentPatternCount :
                 IntentSearch(j, message_lower).ok}
    IN IF K = {} THEN DefaultIntent
       ELSE Strip(IntentSearch(Max(K), message_lower).group, Whitespace)

\* the loop over transformation_patterns, from pattern k on
RECURSIVE IntentFrom(_, _)
IntentFrom(message_lower, k) ==
    IF k > IntentPatternCount THEN DefaultIntent
    ELSE LET match == IntentSearch(k, message_lower)
         IN IF match.ok THEN Strip(match.group, Whitespace)
            ELSE IntentFrom(message_lower, k + 1)

extract_transformation_intent(msg) == IntentFrom(Lower(msg), 1)

(***************************************************************************)
(* ApigeeTemplates.generate_javascript_code                                *)
(***************************************************************************)
CombineWords == {"combine", "firstname", "lastname", "fullname"}

NameCombinationScript ==
    "// Combine firstName and lastName into fullName\n"
    \o "    try {\n"
    \o "        var responseContent = context.getVariable('response.content');\n"
    \o "        if (!responseContent) return;\n"
    \o "\n"
    \o "        var data = JSON.parse(responseContent);\n"
    \o "\n"
    \o "        if (data.firstName && data.lastName) {\n"
    \o "            data.fullName = data.firstName + ' ' + data.lastName;\n"
    \o "        }\n"
    \o "\n"
    \o "        context.setVariable('response.content', JSON.stringify(data));\n"
    \o "\n"
    \o "    } catch (e) {\n"
    \o "        context.setVariable('transformation.error', e.message);\n"
    \o "    }"

GenericScript(transformation_intent) ==
    "// Custom transformation: " \o transformation_intent \o "\n"
    \o "    try {\n"
    \o "        var responseContent = context.getVariable('response.content');\n"
    \o "        if (!responseContent) return;\n"
    \o "\n"
    \o "        var data = JSON.parse(responseContent);\n"
    \o "\n"
    \o "        // Implement custom logic for: " \o transformation_intent \o "\n"
    \o "        data.transformed = true;\n"
    \o "\n"
    \o "        context.setVariable('response.content', JSON.stringify(data));\n"
    \o "\n"
    \o "    } catch (e) {\n"
    \o "        context.setVariable('transformation.error', e.message);\n"
    \o "    }"

\* Mutant: the words are looked up in the intent as given, not lower-cased.
generate_javascript_code_case_sensitive(transformation_intent) ==
    IF \E word \in CombineWords : Contains(transformation_intent, word)
    THEN NameCombinationScript
    ELSE GenericScript(transformation_intent)

generate_javascript_code(transformation_intent) ==
    LET intent_lower == Lower(transformation_intent)
    IN IF \E word \in CombineWords : Contains(intent_lower, word)
       THEN NameCombinationScript
       ELSE GenericScript(transformation_intent)

(***************************************************************************)
(* ApigeeTemplates: the descriptor texts                                   *)
(***************************************************************************)
\* sep.join(seq)
RECURSIVE Join(_, _)
Join(sep, seq) ==
    IF Len(seq) = 0 THEN ""
    ELSE IF Len(seq) = 1 THEN seq[1]
    ELSE seq[1] \o sep \o Join(sep, Tail(seq))

generate_proxy_xml(name, policies) ==
    LET policy_refs == Join("\n", [n \in 1..Len(policies) |-> "  <Policy>" \o policies[n] \o "</Policy>"])
    IN  "<?xml version=\"1.0\" encoding=\"UTF-8\" standalone=\"yes\"?>\n"
        \o "<APIProxy name=\"" \o name \o "\">\n"
        \o "  <Description>Auto-generated proxy: " \o name \o "</Description>\n"
        \o "  <DisplayName>" \o name \o "</DisplayName>\n"
        \o policy_refs \o "\n"
        \o "  <ProxyEndpoints>\n"
        \o "    <ProxyEndpoint>default</ProxyEndpoint>\n"
        \o "  </ProxyEndpoints>\n"
        \o "  <Resources/>\n"
        \o "  <TargetEndpoints>\n"
        \o "    <TargetEndpoint>default</TargetEndpoint>\n"
        \o "  </TargetEndpoints>\n"
        \o "</APIProxy>"

\* Mutant: Quota is missing from the request-preflow list.
PreflowRequestKinds_no_quota ==
    {"VerifyAPIKey", "CORS", "AssignMessage", "SpikeArrest"}

\* the execution point of each policy kind
PreflowRequestKinds ==
    {"VerifyAPIKey", "CORS", "AssignMessage", "SpikeArrest", "Quota"}

PostflowResponseKinds == {"JavaScript"}

StepXml(policy) ==
    "      <Step>\n"
    \o "        <Name>" \o policy \o "</Name>\n"
    \o "      </Step>"

\* the steps appended for the policies of the given kinds, in list order
RECURSIVE StepsOf(_, _)
StepsOf(policies, kinds) ==
    IF Len(policies) = 0 THEN <<>>
    ELSE (IF policies[1] \in kinds THEN <<StepXml(policies[1])>> ELSE <<>>)
         \o StepsOf(Tail(policies), kinds)

FaultRulesXml ==
    "  <FaultRules>\n"
    \o "    <FaultRule name=\"InvalidAPIKey\">\n"
    \o "      <Step>\n"
    \o "        <Name>AM-InvalidAPIKey</Name>\n"
    \o "      </Step>\n"
    \o "      <Condition>(fault.name Matches \"InvalidApiKeyForGivenResource\") or (fault.name Matches \"InvalidApiKey\")</Condition>\n"
    \o "    </FaultRule>\n"
    \o "  </FaultRules>\n"
    \o "  <DefaultFaultRule name=\"defaultRule\">\n"
    \o "    <Step>\n"
    \o "      <Name>AM-GenericError</Name>\n"
    \o "    </Step>\n"
    \o "  </DefaultFaultRule>"

\* Mutant: the fault rules are emitted for every endpoint.
FaultRulesFor_always(policies) == FaultRulesXml

\* fault rules only if VerifyAPIKey is present
FaultRulesFor(policies) ==
    IF \E n \in 1..Len(policies) : policies[n] = "VerifyAPIKey"
    THEN FaultRulesXml
    ELSE ""

generate_proxy_endpoint_xml(name, base_path, policies, msg) ==
    LET preflow_request_steps == StepsOf(policies, PreflowRequestKinds)
        preflow_response_steps == <<>>
        \* elif: only a policy the first test did not take
        postflow_response_steps ==
            StepsOf(policies, PostflowResponseKinds \ PreflowRequestKinds)
        preflow_req_xml == Join("\n", preflow_request_steps)
        preflow_resp_xml == Join("\n", preflow_response_steps)
        postflow_resp_xml == Join("\n", postflow_response_steps)
        fault_rules_xml == FaultRulesFor(policies)
        flows_xml ==
            "  <Flows>\n"
            \o "    <Flow name=\"MainFlow\">\n"
            \o "      <Description>Main API flow</Description>\n"
            \o "      <Request/>\n"
            \o "      <Response/>\n"
            \o "      <Condition>proxy.pathsuffix MatchesPath \"/**\"</Condition>\n"
            \o "    </Flow>\n"
            \o "  </Flows>"
    IN  "<?xml version=\"1.0\" encoding=\"UTF-8\" standalone=\"yes\"?>\n"
        \o "<ProxyEndpoint name=\"default\">\n"
        \o "  <Description>" \o name \o " proxy endpoint</Description>\n"
        \o fault_rules_xml \o "\n"
        \o "  <PreFlow name=\"PreFlow\">\n"
        \o "    <Request>\n"
        \o preflow_req_xml \o "\n"
        \o "    </Request>\n"
        \o "    <Response>\n"
        \o preflow_resp_xml \o "\n"
        \o "    </Response>\n"
        \o "  </PreFlow>\n"
        \o "  <PostFlow name=\"PostFlow\">\n"
        \o "    <Request/>\n"
        \o "    <Response>\n"
        \o postflow_resp_xml \o "\n"
        \o "    </Response>\n"
        \o "  </PostFlow>\n"
        \o flows_xml \o "\n"
        \o "  <HTTPProxyConnection>\n"
        \o "    <BasePath>" \o base_path \o "</BasePath>\n"
        \o "    <Properties/>\n"
        \o "  </HTTPProxyConnection>\n"
        \o "  <RouteRule name=\"default\">\n"
        \o "    <TargetEndpoint>default</TargetEndpoint>\n"
        \o "  </RouteRule>\n"
        \o "</ProxyEndpoint>"

generate_target_endpoint_xml(target_url) ==
    LET clean_url ==
            RStrip(Strip(target_url, Whitespace), {".", ",", ";", " "})
    IN  "<?xml version=\"1.0\" encoding=\"UTF-8\" standalone=\"yes\"?>\n"
        \o "<TargetEndpoint name=\"default\">\n"
        \o "  <Description>Default target endpoint</Description>\n"
        \o "  <PreFlow name=\"PreFlow\">\n"
        \o "    <Request/>\n"
        \o "    <Response/>\n"
        \o "  </PreFlow>\n"
        \o "  <PostFlow name=\"PostFlow\">\n"
        \o "    <Request/>\n"
        \o "    <Response/>\n"
        \o "  </PostFlow>\n"
        \o "  <Flows/>\n"
        \o "  <HTTPTargetConnection>\n"
        \o "    <URL>" \o clean_url \o "</URL>\n"
        \o "    <Properties/>\n"
        \o "  </HTTPTargetConnection>\n"
        \o "</TargetEndpoint>"

\* the templates dict
Templates ==
    [VerifyAPIKey |->
         "<?xml version=\"1.0\" encoding=\"UTF-8\" standalone=\"yes\"?>\n"
         \o "<VerifyAPIKey async=\"false\" continueOnError=\"false\" enabled=\"true\" name=\"VerifyAPIKey\">\n"
         \o "  <DisplayName>Verify API Key</DisplayName>\n"
         \o "  <APIKey ref=\"request.queryparam.apikey\"/>\n"
         \o "</VerifyAPIKey>",

     JavaScript |->
         "<?xml version=\"1.0\" encoding=\"UTF-8\" standalone=\"yes\"?>\n"
         \o "<Javascript async=\"false\" continueOnError=\"false\" enabled=\"true\" name=\"JavaScript\">\n"
         \o "  <DisplayName>JavaScript Transformation</DisplayName>\n"
         \o "  <ResourceURL>jsc://transformation.js</ResourceURL>\n"
         \o "</Javascript>",

     AssignMessage |->
         "<?xml version=\"1.0\" encoding=\"UTF-8\" standalone=\"yes\"?>\n"
         \o "<AssignMessage continueOnError=\"false\" enabled=\"true\" name=\"AssignMessage\">\n"
         \o "  <DisplayName>Assign Message</DisplayName>\n"
         \o "  <Properties/>\n"
         \o "  <Set>\n"
         \o "    <Headers>\n"
         \o "      <Header name=\"X-Processed-By\">Apigee</Header>\n"
         \o "    </Headers>\n"
         \o "  </Set>\n"
         \o "  <AssignVariable>\n"
         \o "    <Name>request.timestamp</Name>\n"
         \o "    <Value>{system.timestamp}</Value>\n"
         \o "  </AssignVariable>\n"
         \o "  <IgnoreUnresolvedVariables>true</IgnoreUnresolvedVariables>\n"
         \o "  <AssignTo createNew=\"false\" transport=\"http\" type=\"request\"/>\n"
         \o "</AssignMessage>",

     CORS |->
         "<?xml version=\"1.0\" encoding=\"UTF-8\" standalone=\"yes\"?>\n"
         \o "<CORS async=\"false\" continueOnError=\"false\" enabled=\"true\" name=\"CORS\">\n"
         \o "  <DisplayName>CORS Policy</DisplayName>\n"
         \o "  <AllowOrigins>*</AllowOrigins>\n"
         \o "  <AllowMethods>GET,POST,PUT,DELETE,OPTIONS</AllowMethods>\n"
         \o "  <AllowHeaders>Content-Type,Authorization,X-Requested-With</AllowHeaders>\n"
         \o "  <MaxAge>3628800</MaxAge>\n"
         \o "  <AllowCredentials>false</AllowCredentials>\n"
         \o "  <GeneratePreflightResponse>true</GeneratePreflightResponse>\n"
         \o "</CORS>",

     Quota |->
         "<?xml version=\"1.0\" encoding=\"UTF-8\" standalone=\"yes\"?>\n"
         \o "<Quota async=\"false\" continueOnError=\"false\" enabled=\"true\" name=\"Quota\">\n"
         \o "  <DisplayName>Quota Policy</DisplayName>\n"
         \o "  <Allow count=\"1000\"/>\n"
         \o "  <Interval>1</Interval>\n"
         \o "  <TimeUnit>hour</TimeUnit>\n"
         \o "  <Identifier ref=\"client_id\"/>\n"
         \o "  <Distributed>true</Distributed>\n"
         \o "  <Synchronous>true</Synchronous>\n"
         \o "</Quota>"]

generate_policy_xml(policy_name, msg) ==
    IF policy_name = "SpikeArrest"
    THEN LET rate == extract_spike_arrest_rate(msg)
         IN
         "<?xml version=\"1.0\" encoding=\"UTF-8\" standalone=\"yes\"?>\n"
         \o "<SpikeArrest async=\"false\" continueOnError=\"false\" enabled=\"true\" name=\"SpikeArrest\">\n"
         \o "  <DisplayName>Spike Arrest</DisplayName>\n"
         \o "  <Rate>" \o rate \o "</Rate>\n"
         \o "  <UseEffectiveCount>true</UseEffectiveCount>\n"
         \o "</SpikeArrest>"
    ELSE IF policy_name \in DOMAIN Templates
    THEN Templates[policy_name]
    ELSE
         "<?xml version=\"1.0\" encoding=\"UTF-8\" standalone=\"yes\"?>\n"
         \o "<" \o policy_name \o " name=\"" \o policy_name \o "\">\n"
         \o "  <DisplayName>" \o policy_name \o "</DisplayName>\n"
         \o "</" \o policy_name \o ">"

(***************************************************************************)
(* ApigeeService.analyze_request                                           *)
(***************************************************************************)
\* the empty dict {}
EmptyDict == <<>>

analyze_request(msg) ==
    LET proxy_details == extract_proxy_details(msg)
        policies == detect_policies(msg)
        transformation_intent == extract_transformation_intent(msg)
    IN [proxy_details |-> proxy_details,
        policies |-> policies,
        transformation_intent |-> transformation_intent,
        original_message |-> msg,
        custom_logic |->
            IF \E n \in 1..Len(policies) : policies[n] = "JavaScript"
            THEN [javascript |->
                     [required |-> \E n \in 1..Len(policies) : policies[n] = "JavaScript",
                      description |-> transformation_intent,
                      code |-> generate_javascript_code(transformation_intent)]]
            ELSE EmptyDict]

(***************************************************************************)
(* ApigeeService.create_proxy_bundle: the archive is modelled by its       *)
(* entries, a function from archive path to file content.                  *)
(***************************************************************************)
\* dict.get(key, default)
Get(dict, key, default) == IF key \in DOMAIN dict THEN dict[key] ELSE default

\* dict[key] = value; also open(path, 'w').write(text) on the file tree:
\* the entry is created or replaced
Put(dict, key, value) ==
    [k \in DOMAIN dict \cup {key} |-> IF k = key THEN value ELSE dict[k]]

\* for policy in policies: write policies/<policy>.xml
RECURSIVE WritePolicies(_, _, _)
WritePolicies(files, policies, original_message) ==
    IF Len(policies) = 0 THEN files
    ELSE WritePolicies(
             Put(files, "apiproxy/policies/" \o policies[1] \o ".xml",
                       generate_policy_xml(policies[1], original_message)),
             Tail(policies), original_message)

\* custom_logic.get("javascript", {}).get("required")
ScriptRequired(custom_logic) ==
    LET javascript == Get(custom_logic, "javascript", EmptyDict)
    IN Get(javascript, "required", FALSE)

\* Mutant: the files are rendered without the text of the request.
DescriptorFiles_without_message(cfg) ==
    LET proxy_details == cfg.proxy_details
        name == proxy_details.name
        f1 == Put(EmptyDict, "apiproxy/" \o name \o ".xml",
                  generate_proxy_xml(name, cfg.policies))
        f2 == Put(f1, "apiproxy/proxies/default.xml",
                  generate_proxy_endpoint_xml(name, proxy_details.base_path,
                                              cfg.policies, ""))
        f3 == Put(f2, "apiproxy/targets/default.xml",
                  generate_target_endpoint_xml(proxy_details.target_url))
    IN WritePolicies(f3, cfg.policies, "")

\* the descriptor files: proxy, endpoint, target and one per policy
DescriptorFiles(cfg) ==
    LET proxy_details == cfg.proxy_details
        policies == cfg.policies
        original_message == Get(cfg, "original_message", "")
        name == proxy_details.name
        proxy_xml == generate_proxy_xml(name, policies)
        endpoint_xml ==
            generate_proxy_endpoint_xml(name, proxy_details.base_path,
                                        policies, original_message)
        target_xml == generate_target_endpoint_xml(proxy_details.target_url)
        f1 == Put(EmptyDict, "apiproxy/" \o name \o ".xml", proxy_xml)
        f2 == Put(f1, "apiproxy/proxies/default.xml", endpoint_xml)
        f3 == Put(f2, "apiproxy/targets/default.xml", target_xml)
    IN WritePolicies(f3, policies, original_message)

\* Mutant: the script is written for every bundle.
create_proxy_bundle_always_script(cfg) ==
    Put(DescriptorFiles(cfg), "apiproxy/resources/jsc/transformation.js",
              generate_javascript_code(Get(cfg, "transformation_intent", "")))

\* the entries of the ZIP: every file under apiproxy/, by its relative path
create_proxy_bundle(cfg) ==
    LET custom_logic == Get(cfg, "custom_logic", EmptyDict)
    IN IF ScriptRequired(custom_logic)
       THEN Put(DescriptorFiles(cfg),
                      "apiproxy/resources/jsc/transformation.js",
                      custom_logic.javascript.code)
       ELSE DescriptorFiles(cfg)

(***************************************************************************)
(* ApigeeService.generate_configuration_preview.  The text starts with a   *)
(* sign that is not an ASCII character; it is left out.                    *)
(***************************************************************************)
\* The backquote: a TLA+ string cannot hold it, "~" (which no text of the
\* program contains) stands for it.
BQ == "~"

Fence == BQ \o BQ \o BQ

\* response += the block of each policy
RECURSIVE PolicyBlocks(_, _)
PolicyBlocks(policies, original_message) ==
    IF Len(policies) = 0 THEN ""
    ELSE "\n**" \o policies[1] \o " Policy:**\n" \o Fence \o "xml\n"
         \o generate_policy_xml(policies[1], original_message) \o "\n" \o Fence \o "\n"
         \o PolicyBlocks(Tail(policies), original_message)

\* (the set binds config, so that the request is analysed once)
generate_configuration_preview(msg) ==
    CHOOSE stripped \in
       {LET proxy_details == cfg.proxy_details
            policies == cfg.policies
            original_message == cfg.original_message
            proxy_xml == generate_proxy_xml(proxy_details.name, policies)
            endpoint_xml ==
                generate_proxy_endpoint_xml(proxy_details.name,
                                            proxy_details.base_path, policies,
                                            original_message)
            target_xml == generate_target_endpoint_xml(proxy_details.target_url)
            response ==
                " **API Proxy Configuration**\n"
                \o "\n"
                \o "**Details:**\n"
                \o "- Name: " \o BQ \o proxy_details.name \o BQ \o "\n"
                \o "- Base Path: " \o BQ \o proxy_details.base_path \o BQ \o " \n"
                \o "- Target: " \o BQ \o proxy_details.target_url \o BQ \o "\n"
                \o "- Policies: " \o BQ
                \o (IF Len(policies) > 0 THEN Join(", ", policies) ELSE "None")
                \o BQ \o "\n"
                \o "\n"
                \o "**Main Proxy XML:**\n"
                \o Fence \o "xml\n" \o proxy_xml \o "\n"
                \o Fence \o "\n"
                \o "\n"
                \o "**Proxy Endpoint XML:**\n"
                \o Fence \o "xml\n" \o endpoint_xml \o "\n"
                \o Fence \o "\n"
                \o "\n"
                \o "**Target Endpoint XML:**\n"
                \o Fence \o "xml\n" \o target_xml \o "\n"
                \o Fence \o "\n"
            with_policies ==
                IF Len(policies) > 0
                THEN response \o "\n**Policy Configurations:**\n"
                     \o PolicyBlocks(policies, original_message)
                ELSE response
            with_script ==
                IF ScriptRequired(cfg.custom_logic)
                THEN with_policies
                     \o "\n**JavaScript Code (transformation.js):**\n"
                     \o Fence \o "javascript\n" \o cfg.custom_logic.javascript.code
                     \o "\n" \o Fence \o "\n"
                ELSE with_policies
        IN RStrip(with_script, Whitespace)
         : cfg \in {analyze_request(msg)}} : TRUE

(***************************************************************************)
(* ApigeeService.deploy_to_apigee.  An optional value (None or a value) is *)
(* <<>> or <<value>>; os.environ is a function from the names of the       *)
(* variables that are set to their values.                                 *)
(***************************************************************************)
None == <<>>

\* Python's truth value of an optional string: None and '' are false
Truthy(opt) == opt # None /\ opt[1] # ""

\* os.getenv(key)
Getenv(env, key) == IF key \in DOMAIN env THEN <<env[key]>> ELSE None

\* ApigeeService.__init__ with APIGEE_ORG and APIGEE_ENVIRONMENT not set
Service ==
    [base_url |-> "https://apigee.googleapis.com/v1",
     org |-> "apigee-non-prod-crjb",
     environment |-> "apim-dev"]

\* the key whose subscript raises KeyError in create_proxy_bundle, if any
MissingKey(cfg) ==
    IF "proxy_details" \notin DOMAIN cfg THEN <<"proxy_details">>
    ELSE IF "policies" \notin DOMAIN cfg THEN <<"policies">>
    ELSE IF "name" \notin DOMAIN cfg.proxy_details THEN <<"name">>
    ELSE IF "base_path" \notin DOMAIN cfg.proxy_details
         THEN <<"base_path">>
    ELSE IF "target_url" \notin DOMAIN cfg.proxy_details
         THEN <<"target_url">>
    ELSE None

\* Mutant: an error status of the upload is not an error.
DeployError_any_status(cfg, token_header, net) ==
    IF MissingKey(cfg) # None
    THEN <<"'" \o MissingKey(cfg)[1] \o "'">>
    ELSE IF ~Truthy(token_header)
    THEN <<"No Apigee access token available">>
    ELSE IF net.exception # None
    THEN net.exception
    ELSE IF net.text # "" /\ ~net.is_json
    THEN <<"Expecting value: line 1 column 1 (char 0)">>
    ELSE None

\* The text of the exception the inner try block raises, None if it
\* returns.  net is what requests.post does: it raises (net.exception), or
\* it returns a response with a status code, a body, and whether
\* response.json() parses the body.
DeployError(cfg, token_header, net) ==
    IF MissingKey(cfg) # None
    THEN <<"'" \o MissingKey(cfg)[1] \o "'">>
    ELSE IF ~Truthy(token_header)
    THEN <<"No Apigee access token available">>
    ELSE IF net.exception # None
    THEN net.exception
    ELSE IF net.status_code >= 400
    THEN <<"API error " \o ToString(net.status_code) \o ": " \o net.text>>
    ELSE IF net.text # "" /\ ~net.is_json
    THEN <<"Expecting value: line 1 column 1 (char 0)">>
    ELSE None

\* the import request of requests.post
UploadRequest(cfg, org, token_header) ==
    LET name == cfg.proxy_details.name
    IN [url |-> Service.base_url \o "/organizations/" \o org \o "/apis"
                \o "?action=import&name=" \o name,
        headers |-> [Authorization |-> "Bearer " \o token_header[1]],
        files |-> [file |-> <<name \o ".zip", create_proxy_bundle(cfg),
                              "application/zip">>]]

\* Mutant: the variable is put back as it was, set or not set.
RestoreToken_as_before(env, token, original_token) ==
    IF ~Truthy(token) THEN env
    ELSE IF original_token = None
    THEN [k \in DOMAIN env \ {"APIGEE_TOKEN"} |-> env[k]]
    ELSE Put(env, "APIGEE_TOKEN", original_token[1])

\* the finally block: restore the original token
RestoreToken(env, token, original_token) ==
    IF Truthy(token) /\ Truthy(original_token)
    THEN Put(env, "APIGEE_TOKEN", original_token[1])
    ELSE env

\* One call: the result returned, os.environ after it, and the upload
\* requests sent during it.  (The messages start with a sign that is not an
\* ASCII character; it is left out.)
deploy_to_apigee(cfg, organization, token, env, net) ==
    LET org == IF Truthy(organization) THEN organization[1] ELSE Service.org
        original_token == Getenv(env, "APIGEE_TOKEN")
        env_set == IF Truthy(token)
                   THEN Put(env, "APIGEE_TOKEN", token[1])
                   ELSE env
        token_header == Getenv(env_set, "APIGEE_TOKEN")
        error == DeployError(cfg, token_header, net)
        posted == MissingKey(cfg) = None /\ Truthy(token_header)
    IN [result |->
            IF error = None
            THEN [success |-> TRUE,
                  message |-> "Proxy '" \o cfg.proxy_details.name
                              \o "' created successfully",
                  proxy_name |-> cfg.proxy_details.name,
                  organization |-> org,
                  test_url |-> "https://" \o org \o "-" \o Service.environment
                               \o ".apigee.net"
                               \o cfg.proxy_details.base_path]
            ELSE [success |-> FALSE,
                  message |-> "Failed to create proxy: " \o error[1]],
        environ |-> RestoreToken(env_set, token, original_token),
        uploads |-> IF posted
                    THEN <<UploadRequest(cfg, org, token_header)>>
                    ELSE <<>>]

(***************************************************************************)
(* main.confirm_action                                                     *)
(***************************************************************************)
\* Mutant: the handler deploys whether the user has confirmed or not.
confirm_action_unconfirmed(confirmation, env, net) ==
    IF confirmation.action = "create_proxy"
    THEN deploy_to_apigee(confirmation.details,
                          Get(confirmation.details, "organization", None),
                          Get(confirmation.details, "token", None),
                          env, net)
    ELSE [result |-> [response |-> "Unknown action: " \o confirmation.action,
                      success |-> FALSE],
          environ |-> env, uploads |-> <<>>]

\* What the handler returns, os.environ after it and the uploads it sent.
\* It runs on the event loop without an await that suspends it:
\* deploy_to_apigee is a coroutine whose body never awaits.
confirm_action(confirmation, env, net) ==
    IF ~confirmation.user_confirmation
    THEN [result |-> [response |-> "Action cancelled", success |-> TRUE],
          environ |-> env, uploads |-> <<>>]
    ELSE IF confirmation.action = "create_proxy"
    THEN deploy_to_apigee(confirmation.details,
                          Get(confirmation.details, "organization", None),
                          Get(confirmation.details, "token", None),
                          env, net)
    ELSE [result |-> [response |-> "Unknown action: " \o confirmation.action,
                      success |-> FALSE],
          environ |-> env, uploads |-> <<>>]

(***************************************************************************)
(* AgentMode and AskAgent.  llm is what the LangChain agent does with the  *)
(* message: it raises (llm.exception) or it answers (llm.output).          *)
(***************************************************************************)
\* Mutant: the words are looked up in the message as typed.
is_creation_request_as_typed(msg) ==
    /\ \E word \in {"create", "build", "generate", "make"} :
           Contains(msg, word)
    /\ \E word \in {"proxy", "api", "endpoint"} : Contains(msg, word)

is_creation_request(msg) ==
    LET message_lower == Lower(msg)
    IN /\ \E word \in {"create", "build", "generate", "make"} :
              Contains(message_lower, word)
       /\ \E word \in {"proxy", "api", "endpoint"} :
              Contains(message_lower, word)

\* (the set binds config and preview, so that each is computed once)
handle_creation_request(msg, context) ==
    CHOOSE result \in
        {LET with_preview == Put(cfg, "preview", preview)
             with_org == Put(with_preview, "organization",
                             Get(context, "organization", <<Service.org>>))
             action_details ==
                 Put(with_org, "token", Get(context, "token", None))
             proxy_name == cfg.proxy_details.name
         IN [response |->
                 preview \o "\n\n Ready to create proxy \"" \o proxy_name
                 \o "\".\n\nTo proceed with deployment to Apigee, respond "
                 \o "with: \"Yes, create this proxy\"\n",
             mode |-> "agent",
             success |-> TRUE,
             requires_confirmation |-> TRUE,
             action |-> "create_proxy",
             details |-> action_details]
         : cfg \in {analyze_request(msg)},
           preview \in {generate_configuration_preview(msg)}} : TRUE

\* AgentMode.run; agent: the agent has been set up
agent_mode_run(agent, msg, context, llm) ==
    IF ~agent
    THEN [response |-> "Agent not ready. Please check the configuration.",
          mode |-> "agent", success |-> FALSE,
          requires_confirmation |-> FALSE]
    ELSE IF is_creation_request(msg)
    THEN handle_creation_request(msg, context)
    ELSE IF llm.exception = None
    THEN [response |-> llm.output, mode |-> "agent", success |-> TRUE,
          requires_confirmation |-> FALSE]
    ELSE [response |-> "Error processing request: " \o llm.exception[1],
          mode |-> "agent", success |-> FALSE,
          requires_confirmation |-> FALSE]

\* the input AskAgent.run hands to the LangChain agent
EnhancedMessage(msg) ==
    "\nBased on Apigee documentation and best practices, help with:\n\n"
    \o msg
    \o "\n\nImportant: Always search the knowledge base first for accurate "
    \o "responses.\n        "

\* AskAgent.run
ask_agent_run(agent, msg, llm) ==
    IF ~agent
    THEN "Ask agent not available. Please check configuration."
    ELSE IF llm.exception = None
    THEN llm.output
    ELSE "Error processing request: " \o llm.exception[1]

\* the agent of the mode calls the LangChain agent, which loads the
\* conversation memory and, when it has answered, saves the exchange to it
UsesMemory(agent, mode, msg) ==
    agent /\ (mode = "ask" \/ ~is_creation_request(msg))

(***************************************************************************)
(* json.loads, for the documents a reply of the language model may hold:   *)
(* strings without escapes, null, true, false, non-negative integers,      *)
(* lists of strings, and objects of these.  A value carries its type, the  *)
(* text of a scalar and the items of a list.                               *)
(***************************************************************************)
JNull == [type |-> "null", str |-> "", items |-> <<>>]

JStr(s) == [type |-> "str", str |-> s, items |-> <<>>]

JBool(b) ==
    [type |-> "bool", str |-> IF b THEN "True" ELSE "False", items |-> <<>>]

JNum(digits) == [type |-> "num", str |-> digits, items |-> <<>>]

JList(items) == [type |-> "list", str |-> "", items |-> items]

\* bool(value) of a JSON value
JTruthy(v) ==
    CASE v.type = "null" -> FALSE
      [] v.type = "str" -> v.str # ""
      [] v.type = "bool" -> v.str = "True"
      [] v.type = "num" -> v.str # "0"
      [] v.type = "list" -> v.items # <<>>

\* str(value), as an f-string formats it
PyStr(v) ==
    IF v.type = "null" THEN "None"
    ELSE IF v.type = "list"
    THEN "[" \o Join(", ", [i \in 1..Len(v.items) |->
                                "'" \o v.items[i] \o "'"]) \o "]"
    ELSE v.str

\* the whitespace of JSON
JsonSpaceClass == [neg |-> FALSE, chars |-> {" ", "\t", "\n", "\r"}]

JsonSkip(s, i) == SpanEnd(s, i, JsonSpaceClass) + 1

JsonFail == [ok |-> FALSE, value |-> JNull, obj |-> EmptyDict, next |-> 0]

JsonValue(v, next) ==
    [ok |-> TRUE, value |-> v, obj |-> EmptyDict, next |-> next]

\* a string that starts with the quote at i: it ends at the next quote and
\* holds no control character
JsonString(s, i) ==
    LET Q == {j \in (i + 1)..Len(s) : Ch(s, j) = "\""}
    IN IF Q = {} THEN JsonFail
       ELSE LET body == SubSeq(s, i + 1, Min(Q) - 1)
            IN IF \E k \in 1..Len(body) :
                      Ch(body, k) \in {"\t", "\n", "\r", "\f"}
               THEN JsonFail
               ELSE JsonValue(JStr(body), Min(Q) + 1)

\* the items of a list from the item at i on
RECURSIVE JsonItems(_, _, _)
JsonItems(s, i, items) ==
    IF i > Len(s) \/ Ch(s, i) # "\"" THEN JsonFail
    ELSE LET item == JsonString(s, i)
             k == JsonSkip(s, item.next)
         IN IF ~item.ok \/ k > Len(s) THEN JsonFail
            ELSE IF Ch(s, k) = ","
            THEN JsonItems(s, JsonSkip(s, k + 1),
                           Append(items, item.value.str))
            ELSE IF Ch(s, k) = "]"
            THEN JsonValue(JList(Append(items, item.value.str)), k + 1)
            ELSE JsonFail

\* a value that is not an object, at i
JsonScalar(s, i) ==
    IF i > Len(s) THEN JsonFail
    ELSE IF Ch(s, i) = "\"" THEN JsonString(s, i)
    ELSE IF At(s, "null", i) THEN JsonValue(JNull, i + 4)
    ELSE IF At(s, "true", i) THEN JsonValue(JBool(TRUE), i + 4)
    ELSE IF At(s, "false", i) THEN JsonValue(JBool(FALSE), i + 5)
    ELSE IF Ch(s, i) = "0" THEN JsonValue(JNum("0"), i + 1)
    ELSE IF Ch(s, i) \in Digits
    THEN JsonValue(JNum(SubSeq(s, i, SpanEnd(s, i, DigitClass))),
                   SpanEnd(s, i, DigitClass) + 1)
    ELSE IF Ch(s, i) = "["
    THEN LET k == JsonSkip(s, i + 1)
         IN IF k <= Len(s) /\ Ch(s, k) = "]"
            THEN JsonValue(JList(<<>>), k + 1)
            ELSE JsonItems(s, k, <<>>)
    ELSE JsonFail

\* the members of an object from the key at i on; a later member replaces
\* an earlier one of the same key
RECURSIVE JsonMembers(_, _, _)
JsonMembers(s, i, obj) ==
    IF i > Len(s) \/ Ch(s, i) # "\"" THEN JsonFail
    ELSE LET key == JsonString(s, i)
             colon == JsonSkip(s, key.next)
         IN IF ~key.ok \/ colon > Len(s) \/ Ch(s, colon) # ":" THEN JsonFail
            ELSE LET member == JsonScalar(s, JsonSkip(s, colon + 1))
                     k == JsonSkip(s, member.next)
                     members == Put(obj, key.value.str, member.value)
                 IN IF ~member.ok \/ k > Len(s) THEN JsonFail
                    ELSE IF Ch(s, k) = ","
                    THEN JsonMembers(s, JsonSkip(s, k + 1), members)
                    ELSE IF Ch(s, k) = "}"
                    THEN [ok |-> TRUE, value |-> JNull, obj |-> members,
                          next |-> k + 1]
                    ELSE JsonFail

JsonObject(s, i) ==
    LET k == JsonSkip(s, i + 1)
    IN IF k <= Len(s) /\ Ch(s, k) = "}"
       THEN [ok |-> TRUE, value |-> JNull, obj |-> EmptyDict, next |-> k + 1]
       ELSE JsonMembers(s, k, EmptyDict)

\* json.loads(text): ok, whether the document is an object, and the object
json_loads(text) ==
    LET i == JsonSkip(text, 1)
        is_object == i <= Len(text) /\ Ch(text, i) = "{"
        parsed == IF is_object THEN JsonObject(text, i)
                  ELSE JsonScalar(text, i)
    IN [ok |-> parsed.ok /\ JsonSkip(text, parsed.next) > Len(text),
        is_object |-> is_object,
        obj |-> parsed.obj]

(***************************************************************************)
(* AgentMode._parse_creation_request.  llm is what the model does with the *)
(* few-shot prompt: it raises (llm.exception) or it returns a text         *)
(* (llm.output, the content of the reply).                                 *)
(***************************************************************************)
\* [^\s,;]
FallbackUrlClass == [neg |-> TRUE, chars |-> Whitespace \cup {",", ";"}]

\* re.search(r'(https?://[^\s,;]+)', message)
SearchFallbackUrl(msg) ==
    LET U == {u \in 1..Len(msg) : UrlAt(msg, msg, u, FallbackUrlClass)}
    IN IF U = {} THEN NoMatch
       ELSE Match(UrlOf(msg, msg, Min(U), FallbackUrlClass))

\* re.search(r'named\s+([a-zA-Z0-9\-_]+)|called\s+([a-zA-Z0-9\-_]+)',
\*           message, re.IGNORECASE), and the group that is not empty
SearchFallbackName(msg) ==
    LET sl == Lower(msg)
        I == {i \in 1..Len(msg) :
                 \E lit \in {"named", "called"} :
                     LitGroupAt(sl, lit, i, 1, NameClass)}
        lit == CHOOSE l \in {"named", "called"} :
                   LitGroupAt(sl, l, Min(I), 1, NameClass)
    IN IF I = {} THEN NoMatch
       ELSE Match(LitGroupOf(msg, lit, Min(I), NameClass))

\* the except branch: the heuristics on the message
FallbackDescriptor(msg) ==
    LET message_lower == Lower(msg)
        url_m == SearchFallbackUrl(msg)
        name_m == SearchFallbackName(msg)
        Append_if(policies, found, kind) ==
            IF found THEN Append(policies, kind) ELSE policies
        p1 == Append_if(<<>>, Contains(message_lower, "cors"), "CORS")
        p2 == Append_if(p1, \/ Contains(message_lower, "api key")
                            \/ Contains(message_lower, "apikey"),
                        "VerifyAPIKey")
        p3 == Append_if(p2, \/ Contains(message_lower, "spikearrest")
                            \/ Contains(message_lower, "spike arrest"),
                        "SpikeArrest")
    IN [proxy_name |->
            JStr(IF name_m.ok THEN name_m.group ELSE "generated-proxy"),
        target_url |->
            JStr(IF url_m.ok THEN RStrip(url_m.group, {".", ",", ";"})
                 ELSE "https://mocktarget.apigee.net/json"),
        base_path |->
            JStr(IF name_m.ok THEN "/" \o name_m.group
                 ELSE "/generated-proxy"),
        policies |-> JList(p3),
        transformation |-> JStr("")]

\* text[start:end+1] between the first "{" and the last "}", or the text
JsonText(text) ==
    LET Open == {i \in 1..Len(text) : Ch(text, i) = "{"}
        Close == {i \in 1..Len(text) : Ch(text, i) = "}"}
    IN IF Open # {} /\ Close # {} /\ Max(Close) > Min(Open)
       THEN SubSeq(text, Min(Open), Max(Close))
       ELSE text

\* a or b or c
Or3(a, b, c) == IF JTruthy(a) THEN a ELSE IF JTruthy(b) THEN b ELSE c

\* the returned dict, its keys normalised
NormalisedDescriptor(parsed) ==
    [proxy_name |->
         Or3(Get(parsed, "proxy_name", JNull), Get(parsed, "name", JNull),
             JStr("generated-proxy")),
     target_url |->
         Or3(Get(parsed, "target_url", JNull), Get(parsed, "target", JNull),
             JStr("https://mocktarget.apigee.net/json")),
     base_path |->
         Or3(Get(parsed, "base_path", JNull), Get(parsed, "path", JNull),
             JStr("/" \o PyStr(Get(parsed, "proxy_name",
                                   JStr("generated-proxy"))))),
     policies |->
         Or3(Get(parsed, "policies", JNull), Get(parsed, "policy", JNull),
             JList(<<>>)),
     transformation |->
         Or3(Get(parsed, "transformation", JNull),
             Get(parsed, "transform", JNull), JStr(""))]

parse_creation_request(msg, llm) ==
    IF llm.exception # None THEN FallbackDescriptor(msg)
    ELSE LET text == Strip(llm.output, Whitespace)
             parsed == json_loads(JsonText(text))
         IN IF parsed.ok /\ parsed.is_object
            THEN NormalisedDescriptor(parsed.obj)
            ELSE FallbackDescriptor(msg)

(***************************************************************************)
(* Inputs: the request texts.  A text is a concatenation of at most        *)
(* MaxFrags fragments of one vocabulary; the fragments are joined with     *)
(* nothing in between, so words run into each other unless a fragment      *)
(* brings its own blank.                                                   *)
(***************************************************************************)
RECURSIVE Texts(_, _)
Texts(V, n) ==
    IF n = 0 THEN {""}
    ELSE LET W == Texts(V, n - 1) IN W \cup {w \o f : w \in W, f \in V}

NameVocab == {"named ", "called ", "proxy ", "create ", "api", "my-x"}

UrlVocab ==
    {"endpoint ", "pointing to ", "https://", "HTTP://", "a.b", "/", "."}

PathVocab == {"base path ", "path ", "/", "v1", "named x ", " "}

PolicyVocab ==
    {"API Key", "cors", "quota", "rate ", "limit", "spike", "modify",
     "set header"}

RateVocab ==
    {"4 requests per sec", "spike arrest", "1", "4", " per second", "ps"}

IntentVocab ==
    {"combine", "add", " ", ".", "firstName", "x", "javascript to "}

\* the first two example requests of agents/few_shot_prompts.py
BookingRequest ==
    "Create an Apigee API proxy named booking-api with base path /booking "
    \o "pointing to https://backend.example.com/api. "
    \o "Add a VerifyAPIKey policy to all requests."

GoogleRequest ==
    "Create an Apigee API proxy named googledemo with base path /google "
    \o "pointing to https://www.google.com. Add these routes: /getuser (GET), "
    \o "/adduser (POST), /updateuser (PUT), /deleteuser (DELETE). "
    \o "Attach SpikeArrest with 4ps."

\* requests in which more than one pattern of a field matches
PriorityScenarios ==
    {"Add a header. Then combine first and last. ",
     "javascript that will modify the body.",
     "spike arrest 7, at most 5 per second",
     "Create a proxy called b-api, named a-api",
     "make proxy x-1 here called y-2",
     "pointing to http://a.b; the backend is https://real.example.com/x."}

\* requests in which a policy keyword is a piece of a name or of a URL
EmbeddedKeywordScenarios ==
    {"Create a proxy named cors-gateway",
     "Create a proxy pointing to https://apikey.example.com/v1"}

\* requests that reach the patterns the vocabularies leave out
Scenarios ==
    {BookingRequest,
     GoogleRequest,
     "Target endpoint should be: https://api.example.com/v1,",
     "The target of this endpoint is\nhttp://svc.internal:8080/x;",
     "Build it for the backend at https://b.example.org/ please",
     "create a weather api with basepath /weather/ and burst control",
     "Transform the response: allow 5 req a sec\tand assign message"}
    \cup PriorityScenarios \cup EmbeddedKeywordScenarios

Messages ==
    Texts(NameVocab, MaxFrags) \cup Texts(UrlVocab, MaxFrags)
    \cup Texts(PathVocab, MaxFrags) \cup Texts(PolicyVocab, MaxFrags)
    \cup Texts(RateVocab, MaxFrags) \cup Texts(IntentVocab, MaxFrags)
    \cup Scenarios

(***************************************************************************)
(* The state machine: one request text and one call on it.  pc names the   *)
(* function that has returned, ret holds what it returned.                 *)
(***************************************************************************)
\* no deployment, no chat: the service has received nothing
ServerIdle ==
    /\ environ = <<>>
    /\ requests = <<>>
    /\ uploads = <<>>
    /\ agents = <<>>
    /\ reply = None

Init ==
    /\ message \in Messages
    /\ pc = "start"
    /\ ret = ""
    /\ config = EmptyDict
    /\ ServerIdle

ExtractProxyDetails ==
    /\ pc = "start"
    /\ ret' = extract_proxy_details(message)
    /\ pc' = "extract_proxy_details"
    /\ UNCHANGED <<message, config, serverVars>>

DetectPolicies ==
    /\ pc = "start"
    /\ ret' = detect_policies(message)
    /\ pc' = "detect_policies"
    /\ UNCHANGED <<message, config, serverVars>>

ExtractSpikeArrestRate ==
    /\ pc = "start"
    /\ ret' = extract_spike_arrest_rate(message)
    /\ pc' = "extract_spike_arrest_rate"
    /\ UNCHANGED <<message, config, serverVars>>

ExtractTransformationIntent ==
    /\ pc = "start"
    /\ ret' = extract_transformation_intent(message)
    /\ pc' = "extract_transformation_intent"
    /\ UNCHANGED <<message, config, serverVars>>

\* generate_javascript_code is a static method of any intent text: the text
\* drawn is its argument.
GenerateJavascriptCode ==
    /\ pc = "start"
    /\ ret' = generate_javascript_code(message)
    /\ pc' = "generate_javascript_code"
    /\ UNCHANGED <<message, config, serverVars>>

AnalyzeRequest ==
    /\ pc = "start"
    /\ ret' = analyze_request(message)
    /\ pc' = "analyze_request"
    /\ UNCHANGED <<message, config, serverVars>>

Next ==
    \/ ExtractProxyDetails
    \/ DetectPolicies
    \/ ExtractSpikeArrestRate
    \/ ExtractTransformationIntent
    \/ GenerateJavascriptCode
    \/ AnalyzeRequest

Spec == Init /\ [][Next]_vars

\* Policy detection alone, on the texts of the policy vocabulary.
InitPolicies ==
    /\ message \in Texts(PolicyVocab, MaxFrags)
    /\ pc = "start"
    /\ ret = ""
    /\ config = EmptyDict
    /\ ServerIdle

NextPolicies == DetectPolicies

SpecPolicies == InitPolicies /\ [][NextPolicies]_vars

(***************************************************************************)
(* Rendering and packaging: one config and one call on it.                 *)
(***************************************************************************)
\* all lists of at most n elements of S
RECURSIVE Lists(_, _)
Lists(S, n) ==
    IF n = 0 THEN {<<>>}
    ELSE LET L == Lists(S, n - 1) IN L \cup {Append(l, x) : l \in L, x \in S}

\* the six kinds of detect_policies and one kind no table knows
RenderKinds == {KindOrder[i] : i \in 1..Len(KindOrder)} \cup {"OAuthV2"}

RenderDetails ==
    {[proxy_details |->
          [name |-> "my-x", target_url |-> " https://a.b/c.; ",
           base_path |-> "/v1"],
      original_message |-> "spike arrest 4 per sec",
      custom_logic |->
          [javascript |->
               [required |-> TRUE, description |-> "combine",
                code |-> generate_javascript_code("combine")]]],
     [proxy_details |->
          [name |-> "generated-proxy", target_url |-> DefaultTargetUrl,
           base_path |-> "/generated-proxy"],
      original_message |-> "",
      custom_logic |-> EmptyDict]}


\* configs as a caller of the renderers may build them
RenderConfigs ==
    {[proxy_details |-> d.proxy_details,
      policies |-> p,
      original_message |-> d.original_message,
      custom_logic |-> d.custom_logic] :
        d \in RenderDetails, p \in Lists(RenderKinds, MaxPolicies)}

BundleVocab ==
    {"named my-x ", "api key ", "quota ", "spike 4ps ", "combine "}

BundleMessages ==
    Texts(BundleVocab, MaxFrags) \cup Scenarios
    \cup {"named my-x cors combine ", "cors and add header"}

InitRender ==
    /\ \/ /\ config \in RenderConfigs
          /\ message = config.original_message
       \/ /\ message \in BundleMessages
          /\ config = analyze_request(message)
    /\ pc = "start"
    /\ ret = ""
    /\ ServerIdle

GenerateProxyXml ==
    /\ pc = "start"
    /\ ret' = generate_proxy_xml(config.proxy_details.name, config.policies)
    /\ pc' = "generate_proxy_xml"
    /\ UNCHANGED <<message, config, serverVars>>

GenerateProxyEndpointXml ==
    /\ pc = "start"
    /\ ret' = generate_proxy_endpoint_xml(config.proxy_details.name,
                                          config.proxy_details.base_path,
                                          config.policies,
                                          config.original_message)
    /\ pc' = "generate_proxy_endpoint_xml"
    /\ UNCHANGED <<message, config, serverVars>>

GenerateTargetEndpointXml ==
    /\ pc = "start"
    /\ ret' = generate_target_endpoint_xml(config.proxy_details.target_url)
    /\ pc' = "generate_target_endpoint_xml"
    /\ UNCHANGED <<message, config, serverVars>>

GeneratePolicyXml ==
    /\ pc = "start"
    /\ \E n \in 1..Len(config.policies) :
           ret' = generate_policy_xml(config.policies[n],
                                      config.original_message)
    /\ pc' = "generate_policy_xml"
    /\ UNCHANGED <<message, config, serverVars>>

CreateProxyBundle ==
    /\ pc = "start"
    /\ ret' = create_proxy_bundle(config)
    /\ pc' = "create_proxy_bundle"
    /\ UNCHANGED <<message, config, serverVars>>

NextRender ==
    \/ GenerateProxyXml
    \/ GenerateProxyEndpointXml
    \/ GenerateTargetEndpointXml
    \/ GeneratePolicyXml
    \/ CreateProxyBundle

SpecRender == InitRender /\ [][NextRender]_vars

(***************************************************************************)
(* The service: main.chat_with_bot and main.confirm_action serving         *)
(* requests.  requests holds every request received, in order, with the    *)
(* state of its handler; uploads holds every import request sent to        *)
(* Apigee, with the request it was sent for; environ is os.environ; agents *)
(* holds the two agents created when the module is loaded.                 *)
(***************************************************************************)
MaxRequests == 2

\* Mutant: agent mode waits a minute.
ChatTimeout_agent_minute(mode) == IF mode = "ask" THEN 30 ELSE 60

\* asyncio.wait_for(..., timeout=...) of the two modes, in seconds
ChatTimeout(mode) == IF mode = "ask" THEN 30 ELSE 45

\* config.GROQ_API_KEY, read from the environment when the module is loaded
GROQ_API_KEY(env) == Getenv(env, "GROQ_API_KEY")

SetupRequired(mode) ==
    [response |-> "Setup Required: Set GROQ_API_KEY environment variable",
     mode |-> mode, success |-> FALSE, requires_confirmation |-> FALSE]

TimeoutResponse(mode) ==
    [response |-> "Request timeout. Please try again.",
     mode |-> mode, success |-> FALSE, requires_confirmation |-> FALSE]

\* what the handler returns when the worker thread returns in time
chat_with_bot(body, agent, llm) ==
    LET context == [organization |-> body.organization, token |-> body.token]
    IN IF body.mode = "ask"
       THEN [response |-> ask_agent_run(agent, body.message, llm),
             mode |-> body.mode, success |-> TRUE,
             requires_confirmation |-> FALSE]
       ELSE agent_mode_run(agent, body.message, context, llm)

\* the agent that serves a mode
AgentOf(mode) == IF mode = "ask" THEN "ask_agent" ELSE "agent_mode"

\* Inputs
Tokens == {"tokA", "tokB"}

Question == "what is a quota policy?"

CreationText == "create proxy named my-x with cors"

ChatBodies ==
    {[message |-> Question, mode |-> m, organization |-> None,
      token |-> None] : m \in {"ask", "agent"}}
    \cup {[message |-> CreationText, mode |-> "agent",
           organization |-> None, token |-> t] : t \in {None, <<"tokA">>}}

\* how long the worker thread runs, in seconds
Durations == {20, 40, 50}

LlmOutcomes ==
    {[exception |-> None, output |-> "A quota limits the calls."],
     [exception |-> <<"rate limit reached">>, output |-> ""]}

NetResponse(status, text, is_json) ==
    [exception |-> None, status_code |-> status, text |-> text,
     is_json |-> is_json]

NetOutcomes ==
    {[exception |-> <<"Connection refused">>, status_code |-> 0,
      text |-> "", is_json |-> FALSE],
     NetResponse(200, "", FALSE),
     NetResponse(200, "{\"name\": \"my-x\"}", TRUE),
     NetResponse(200, "<html>OK</html>", FALSE),
     NetResponse(400, "bad bundle", FALSE),
     NetResponse(503, "unavailable", FALSE)}

\* details a client sends on its own: a configuration with credentials, or
\* a dictionary that is not a configuration
ClientDetails ==
    {Put(Put(analyze_request(CreationText), "organization", None),
         "token", t) : t \in {None} \cup {<<k>> : k \in Tokens}}
    \cup {[organization |-> <<"my-org">>]}

\* the confirmations a client can send: its own, or one that echoes the
\* action and details of a chat response; source is that chat request
Confirmations ==
    {[body |-> [action |-> "create_proxy", details |-> d,
                user_confirmation |-> TRUE], source |-> 0]
        : d \in ClientDetails}
    \cup {[body |-> [action |-> a, details |-> d,
                     user_confirmation |-> c], source |-> 0]
            : <<a, c>> \in {<<"create_proxy", FALSE>>,
                            <<"delete_proxy", TRUE>>},
              d \in {x \in ClientDetails :
                        Get(x, "token", None) = <<"tokA">>}}
    \cup {[body |-> [action |-> requests[j].response[1].action,
                     details |-> requests[j].response[1].details,
                     user_confirmation |-> TRUE], source |-> j]
            : j \in {k \in 1..Len(requests) :
                        /\ requests[k].path = "/chat"
                        /\ requests[k].response # None
                        /\ "details" \in DOMAIN requests[k].response[1]}}

InitServer ==
    /\ message = ""
    /\ pc = "serve"
    /\ ret = ""
    /\ config = EmptyDict
    /\ \E keys \in SUBSET {"GROQ_API_KEY", "APIGEE_TOKEN"} :
           environ = [k \in keys |-> IF k = "GROQ_API_KEY" THEN "gsk-key"
                                     ELSE "env-token"]
    /\ \E ready \in BOOLEAN :
           /\ ready => "GROQ_API_KEY" \in DOMAIN environ
           /\ agents = [a \in {"ask_agent", "agent_mode"} |->
                           [agent |-> ready, memory |-> <<>>]]
    /\ requests = <<>>
    /\ uploads = <<>>
    /\ reply = None

ReceiveChat ==
    /\ Len(requests) < MaxRequests
    /\ \E body \in ChatBodies :
           requests' = Append(requests,
                              [path |-> "/chat", body |-> body,
                               state |-> "received", response |-> None,
                               worker |-> "idle", duration |-> 0,
                               history |-> <<>>])
    /\ UNCHANGED <<message, pc, ret, config, environ, uploads, agents, reply>>

\* the handler up to its await: the worker thread is started and the agent
\* loads the conversation memory (history)
ChatWithBot(i) ==
    /\ requests[i].path = "/chat"
    /\ requests[i].state = "received"
    /\ IF ~Truthy(GROQ_API_KEY(environ))
       THEN requests' =
                [requests EXCEPT
                    ![i].state = "responded",
                    ![i].response = <<SetupRequired(requests[i].body.mode)>>]
       ELSE LET body == requests[i].body
                name == AgentOf(body.mode)
            IN \E d \in Durations :
                   requests' =
                       [requests EXCEPT
                           ![i].state = "waiting",
                           ![i].worker = "running",
                           ![i].duration = d,
                           ![i].history =
                               IF UsesMemory(agents[name].agent, body.mode,
                                             body.message)
                               THEN agents[name].memory
                               ELSE <<>>]
    /\ UNCHANGED <<message, pc, ret, config, environ, uploads, agents, reply>>

\* asyncio.TimeoutError: the wait is over, the worker thread runs on
Timeout(i) ==
    /\ requests[i].path = "/chat"
    /\ requests[i].state = "waiting"
    /\ requests[i].duration > ChatTimeout(requests[i].body.mode)
    /\ requests' =
           [requests EXCEPT
               ![i].state = "responded",
               ![i].response = <<TimeoutResponse(requests[i].body.mode)>>]
    /\ UNCHANGED <<message, pc, ret, config, environ, uploads, agents, reply>>

\* the worker thread runs the agent and returns; the handler, if it still
\* waits, returns the response
WorkerReturns(i) ==
    /\ requests[i].path = "/chat"
    /\ requests[i].worker = "running"
    /\ \/ requests[i].state = "responded"
       \/ requests[i].duration <= ChatTimeout(requests[i].body.mode)
    /\ LET body == requests[i].body
           name == AgentOf(body.mode)
           uses == UsesMemory(agents[name].agent, body.mode, body.message)
       IN \E llm \in IF uses THEN LlmOutcomes
                     ELSE {[exception |-> None, output |-> ""]} :
          \E response \in
                 IF requests[i].state = "waiting"
                 THEN {<<chat_with_bot(body, agents[name].agent, llm)>>}
                 ELSE {requests[i].response} :
              /\ requests' = [requests EXCEPT ![i].worker = "done",
                                              ![i].state = "responded",
                                              ![i].response = response]
              /\ agents' =
                     IF uses /\ llm.exception = None
                     THEN [agents EXCEPT
                              ![name].memory =
                                  Append(@, [by |-> i,
                                             input |->
                                                 IF body.mode = "ask"
                                                 THEN EnhancedMessage(
                                                          body.message)
                                                 ELSE body.message,
                                             output |-> llm.output])]
                     ELSE agents
    /\ UNCHANGED <<message, pc, ret, config, environ, uploads, reply>>

ReceiveConfirm ==
    /\ Len(requests) < MaxRequests
    /\ \E c \in Confirmations :
           requests' = Append(requests,
                              [path |-> "/confirm-action", body |-> c.body,
                               source |-> c.source, state |-> "received",
                               response |-> None, net |-> None])
    /\ UNCHANGED <<message, pc, ret, config, environ, uploads, agents, reply>>

\* the whole handler, the deployment included; net is what the network
\* does with the import request, kept with the request when one is sent
ConfirmAction(i) ==
    /\ requests[i].path = "/confirm-action"
    /\ requests[i].state = "received"
    /\ LET body == requests[i].body
       IN \E net \in NetOutcomes :
              \E done \in {confirm_action(body, environ, net)} :
                 /\ requests' =
                         [requests EXCEPT
                             ![i].state = "responded",
                             ![i].response = <<done.result>>,
                             ![i].net = IF done.uploads # <<>>
                                        THEN <<net>> ELSE None]
                 /\ environ' = done.environ
                 /\ uploads' =
                        uploads \o [n \in 1..Len(done.uploads) |->
                                       [by |-> i,
                                        request |-> done.uploads[n]]]
    /\ UNCHANGED <<message, pc, ret, config, agents, reply>>

NextServer ==
    \/ ReceiveChat
    \/ \E i \in 1..Len(requests) : ChatWithBot(i)
    \/ \E i \in 1..Len(requests) : Timeout(i)
    \/ \E i \in 1..Len(requests) : WorkerReturns(i)
    \/ ReceiveConfirm
    \/ \E i \in 1..Len(requests) : ConfirmAction(i)

SpecServer == InitServer /\ [][NextServer]_vars

(***************************************************************************)
(* AgentMode on its own: one message, one agent object and one call on it. *)
(***************************************************************************)
AgentVocab == {"Make ", "build", "proxy ", "API", "show ", "x"}

\* a word inside a word, capitals, a word of one list only
AgentScenarios ==
    {"remake the therapist list", "GENERATE AN ENDPOINT",
     "what is a proxy?", "create a folder", CreationText, Question}

AgentMessages == Texts(AgentVocab, MaxFrags) \cup AgentScenarios

\* the context main.py builds from the body of the request
AgentContexts ==
    {[organization |-> None, token |-> None],
     [organization |-> <<"org-b">>, token |-> <<"tokA">>]}

\* requests on which the heuristics of the parser and the extractor can part
ParserMessages ==
    {"", CreationText,
     "Create a proxy named My-Api with api key and cors",
     "build proxy orders with base path /o",
     "make api called x_1 for HTTPS://H.example.com/v1",
     "create proxy named a pointing to http://a.b",
     "create an api named shop with quota, see https://shop.example.com/."}

\* what the model may answer to the few-shot prompt
ParserOutputs ==
    {"", "not json", "[]", "[\"CORS\"]", "{\"name\": \"orders\",}",
     "{}",
     "{\"proxy_name\": \"orders\", \"target_url\": "
     \o "\"https://o.example.com\", \"base_path\": \"/orders\", "
     \o "\"policies\": [\"CORS\"], \"transformation\": \"none\"}",
     "Here is the JSON:\n{\"proxy_name\": \"orders\"}\nDone.",
     "{\"name\": \"orders\"}",
     "{\"proxy_name\": null, \"path\": \"/p\"}",
     "{\"proxy_name\": \"orders\", \"base_path\": \"orders\"}",
     "{\"name\": \"orders\", \"policies\": \"CORS, Quota\"}",
     "{\"proxy_name\": \"\", \"name\": \"n2\", \"policy\": "
     \o "[\"Quota\", \"CORS\"]}",
     "{\"proxy_name\": 7, \"target\": true, \"policies\": []}"}

ParserReplies ==
    LlmOutcomes \cup {[exception |-> None, output |-> o] : o \in ParserOutputs}

InitAgent ==
    /\ \/ message \in AgentMessages /\ reply \in LlmOutcomes
       \/ message \in ParserMessages /\ reply \in ParserReplies
    /\ \E ready \in BOOLEAN :
           agents = [a \in {"ask_agent", "agent_mode"} |->
                        [agent |-> ready, memory |-> <<>>]]
    /\ pc = "start"
    /\ ret = ""
    /\ config = EmptyDict
    /\ environ = <<>>
    /\ requests = <<>>
    /\ uploads = <<>>

AgentModeRun ==
    /\ pc = "start"
    /\ \E context \in AgentContexts :
           ret' = agent_mode_run(agents.agent_mode.agent, message, context,
                                 reply)
    /\ pc' = "agent_mode_run"
    /\ UNCHANGED <<message, config, serverVars>>

ParseCreationRequest ==
    /\ pc = "start"
    /\ ret' = parse_creation_request(message, reply)
    /\ pc' = "parse_creation_request"
    /\ UNCHANGED <<message, config, serverVars>>

NextAgent ==
    \/ AgentModeRun
    \/ ParseCreationRequest

SpecAgent == InitAgent /\ [][NextAgent]_vars

(***************************************************************************)
(* Properties.                                                             *)
(***************************************************************************)
Range(seq) == {seq[i] : i \in 1..Len(seq)}

StartsWith(s, prefix) == At(s, prefix, 1)

EndsWith(s, suffix) == Len(suffix) <= Len(s) /\ At(s, suffix, Len(s) - Len(suffix) + 1)

\* the place of a kind in the fixed order
Rank(kind) == CHOOSE r \in 1..Len(KindOrder) : KindOrder[r] = kind

RecognizedPhrases == UNION {PhrasesOf(kind) : kind \in Range(KindOrder)}

\* an absolute URL: http:// or https:// followed by a non-empty host
WellFormedUrl(url) ==
    LET l == Lower(url)
        b == IF StartsWith(l, "https://") THEN 9
             ELSE IF StartsWith(l, "http://") THEN 8 ELSE 0
    IN b > 0 /\ b <= Len(url) /\ Ch(url, b) \notin {"/", "?", "#"}

\* the text holds no URL at all
NoUrl(msg) ==
    ~Contains(Lower(msg), "http://") /\ ~Contains(Lower(msg), "https://")

NoNamePattern(msg) ==
    \A k \in 1..NamePatternCount : ~NameSearch(k, Lower(msg)).ok

NoBasePathPattern(msg) ==
    \A k \in 1..BasePathPatternCount : ~BasePathSearch(k, Lower(msg)).ok

\* C1: the base_path that extract_proxy_details returns starts with exactly
\* one "/" and does not end with "/".  The code returns "/" for a text such
\* as "base path /", whose only character is a trailing "/".
C1_BasePathWellFormed ==
    pc = "extract_proxy_details" =>
        /\ StartsWith(ret.base_path, "/")
        /\ ~At(ret.base_path, "/", 2)
        /\ ~EndsWith(ret.base_path, "/")

\* C2: the target_url that extract_proxy_details returns is an absolute URL,
\* an http or https scheme, "://" and a non-empty host.  The code accepts
\* every candidate longer than 10 characters that holds a ".", such as
\* "https:///a.b", which has no host.
C2_TargetUrlWellFormed ==
    pc = "extract_proxy_details" => WellFormedUrl(ret.target_url)

\* C3: analyze_request returns a record whose name, target_url, base_path and
\* transformation_intent are non-empty and whose policies is a list.  The code
\* returns the empty intent for a text such as "add  ", where only whitespace
\* follows the trigger verb.
C3_FullyPopulated ==
    pc = "analyze_request" =>
        /\ ret.proxy_details.name # ""
        /\ ret.proxy_details.target_url # ""
        /\ ret.proxy_details.base_path # ""
        /\ ret.transformation_intent # ""
        /\ DOMAIN ret.policies = 1..Len(ret.policies)

\* C4: the list detect_policies returns holds only the six policy kinds, none
\* twice, in the fixed order VerifyAPIKey, CORS, Quota, SpikeArrest,
\* JavaScript, AssignMessage, whatever the order of the keywords in the text.
C4_PoliciesOrdered ==
    pc = "detect_policies" =>
        /\ \A i \in 1..Len(ret) : ret[i] \in Range(KindOrder)
        /\ \A i, j \in 1..Len(ret) : i < j => Rank(ret[i]) < Rank(ret[j])

\* the keywords occur in the text in the reverse of the fixed order
C4_Witness ==
    /\ pc = "detect_policies"
    /\ message = "spikequotacors"
    /\ ret = <<"CORS", "Quota", "SpikeArrest">>

\* C5: detect_policies includes a kind if and only if one of the phrases of
\* that kind occurs in the lower-cased text, independently of the other kinds.
C5_DetectedIffPhrase ==
    pc = "detect_policies" =>
        \A kind \in Range(KindOrder) :
            kind \in Range(ret) <=> AnyPhrase(Lower(message), PhrasesOf(kind))

\* a Quota phrase and a SpikeArrest phrase in one text give both kinds
C5_Witness ==
    /\ pc = "detect_policies"
    /\ AnyPhrase(Lower(message), QuotaPhrases)
    /\ AnyPhrase(Lower(message), SpikePhrases)
    /\ ret = <<"Quota", "SpikeArrest">>

\* C6: detection is monotonic: every kind detected in a text is detected in
\* the text with a recognized phrase appended.
C6_Monotonic ==
    pc = "detect_policies" =>
        \A k \in RecognizedPhrases :
            Range(ret) \subseteq Range(detect_policies(message \o k))

\* a text with a detected kind to which a phrase adds another kind
C6_Witness ==
    /\ pc = "detect_policies"
    /\ ret # <<>>
    /\ \E k \in RecognizedPhrases :
           Range(detect_policies(message \o k)) # Range(ret)

\* C7: for the booking-api example request analyze_request yields the name
\* "booking-api", the base path "/booking", the target URL without its
\* trailing period and the policy list [VerifyAPIKey].
C7_BookingScenario ==
    (pc = "analyze_request" /\ message = BookingRequest) =>
        /\ ret.proxy_details.name = "booking-api"
        /\ ret.proxy_details.base_path = "/booking"
        /\ ret.proxy_details.target_url = "https://backend.example.com/api"
        /\ ret.policies = <<"VerifyAPIKey">>

C7_Witness ==
    /\ pc = "analyze_request"
    /\ message = BookingRequest
    /\ ret.original_message = BookingRequest

\* C8 as stated: every text that contains "4 requests per sec" and
\* "spike arrest" gets the rate "4ps" and the SpikeArrest policy.
C8_Original ==
    (/\ pc = "extract_spike_arrest_rate"
     /\ Contains(message, "4 requests per sec")
     /\ Contains(message, "spike arrest")) =>
        /\ ret = "4ps"
        /\ "SpikeArrest" \in Range(detect_policies(message))

\* index of the first occurrence of lit in s
FirstIndex(s, lit) == Min({i \in 1..Len(s) : At(s, lit, i)})

\* C8 amended: every text that contains "4 requests per sec" and
\* "spike arrest", and no digit before its first "4 requests per sec", gets
\* the rate "4ps" and the SpikeArrest policy.
C8_Amended ==
    (/\ pc = "extract_spike_arrest_rate"
     /\ Contains(message, "4 requests per sec")
     /\ Contains(message, "spike arrest")
     /\ \A i \in 1..(FirstIndex(message, "4 requests per sec") - 1) :
            ~InClass(Ch(message, i), DigitClass)) =>
        /\ ret = "4ps"
        /\ "SpikeArrest" \in Range(detect_policies(message))

\* such a text, with a second number after the phrase
C8_Witness ==
    /\ pc = "extract_spike_arrest_rate"
    /\ message = "spike arrest4 requests per sec1"
    /\ ret = "4ps"

\* C9 as stated: every text without a URL gets the default target URL, the
\* name "generated-proxy" and the base path "/generated-proxy"; and whenever
\* no base-path pattern matches, base_path is "/" followed by the name.
C9_Original ==
    pc = "extract_proxy_details" =>
        /\ NoUrl(message) =>
              /\ ret.target_url = DefaultTargetUrl
              /\ ret.name = "generated-proxy"
              /\ ret.base_path = "/generated-proxy"
        /\ NoBasePathPattern(message) => ret.base_path = "/" \o ret.name

\* C9 amended: every text without a URL gets the default target URL; a text
\* in which no name pattern matches gets the name "generated-proxy"; and
\* whenever no base-path pattern matches, base_path is "/" followed by the
\* returned name ("/generated-proxy" when no name pattern matches either).
C9_Amended ==
    pc = "extract_proxy_details" =>
        /\ NoUrl(message) => ret.target_url = DefaultTargetUrl
        /\ NoNamePattern(message) => ret.name = "generated-proxy"
        /\ NoBasePathPattern(message) => ret.base_path = "/" \o ret.name
        /\ (NoNamePattern(message) /\ NoBasePathPattern(message)) =>
              ret.base_path = "/generated-proxy"

\* a text without a URL and without a base path that names the proxy
C9_Witness ==
    /\ pc = "extract_proxy_details"
    /\ NoUrl(message)
    /\ NoBasePathPattern(message)
    /\ ~NoNamePattern(message)
    /\ ret.target_url = DefaultTargetUrl
    /\ ret.name = "my-x"
    /\ ret.base_path = "/my-x"

\* C10: generate_javascript_code returns the fixed name-combination script
\* exactly when the lower-cased intent holds "combine", "firstname",
\* "lastname" or "fullname"; otherwise the generic script, with the intent in
\* its two comment lines and the marker data.transformed = true.
C10_ScriptChoice ==
    pc = "generate_javascript_code" =>
        IF \E word \in {"combine", "firstname", "lastname", "fullname"} :
               Contains(Lower(message), word)
        THEN ret = NameCombinationScript
        ELSE /\ ret # NameCombinationScript
             /\ StartsWith(ret, "// Custom transformation: " \o message \o "\n")
             /\ Contains(ret, "\n        // Implement custom logic for: "
                                 \o message \o "\n")
             /\ Contains(ret, "\n        data.transformed = true;\n")

\* an intent that holds "firstName" in mixed case
C10_Witness ==
    /\ pc = "generate_javascript_code"
    /\ Contains(message, "firstName")
    /\ ~Contains(message, "combine")
    /\ ret = NameCombinationScript

(***************************************************************************)
(* Reading the rendered descriptors back.                                  *)
(***************************************************************************)
\* the least index >= from at which lit occurs in s, 0 if there is none
RECURSIVE FindIn(_, _, _, _)
FindIn(s, lit, lo, hi) ==
    IF lo > hi THEN 0
    ELSE IF lo = hi THEN (IF At(s, lit, lo) THEN lo ELSE 0)
    ELSE LET mid == (lo + hi) \div 2
             left == FindIn(s, lit, lo, mid)
         IN IF left # 0 THEN left ELSE FindIn(s, lit, mid + 1, hi)

Find(s, lit, from) == FindIn(s, lit, from, Len(s) - Len(lit) + 1)

\* the text of s between the first open and the next close
Between(s, open, close) ==
    LET a == Find(s, open, 1)
        b == Find(s, close, a + Len(open))
    IN SubSeq(s, a + Len(open), b - 1)

\* the <Name> elements of an XML text, in document order
RECURSIVE StepNames(_)
StepNames(xml) ==
    LET a == Find(xml, "<Name>", 1)
    IN IF a = 0 THEN <<>>
       ELSE LET b == Find(xml, "</Name>", a)
            IN <<SubSeq(xml, a + 6, b - 1)>>
               \o StepNames(SubSeq(xml, b + 7, Len(xml)))

PreFlowOf(xml) == Between(xml, "<PreFlow name=\"PreFlow\">", "</PreFlow>")

PostFlowOf(xml) == Between(xml, "<PostFlow name=\"PostFlow\">", "</PostFlow>")

RequestOf(flow) ==
    IF Contains(flow, "<Request/>") THEN ""
    ELSE Between(flow, "<Request>", "</Request>")

ResponseOf(flow) ==
    IF Contains(flow, "<Response/>") THEN ""
    ELSE Between(flow, "<Response>", "</Response>")

\* everything from the PreFlow on: all stages, without the fault rules
StagesOf(xml) ==
    SubSeq(xml, Find(xml, "<PreFlow name=\"PreFlow\">", 1), Len(xml))

\* the entries of seq that are in S, in the order of seq
Filter(seq, S) == SelectSeq(seq, LAMBDA x : x \in S)

\* C12: every VerifyAPIKey, CORS, AssignMessage, SpikeArrest or Quota policy
\* is a step of the PreFlow request and of no other stage, every JavaScript
\* policy a step of the PostFlow response and of no other stage, a policy of
\* another kind is a step nowhere, the PreFlow response is empty, and the
\* steps of a stage keep the order of the policy list.
C12_StepPlacement ==
    pc = "generate_proxy_endpoint_xml" =>
        LET request_kinds ==
                {"VerifyAPIKey", "CORS", "AssignMessage", "SpikeArrest",
                 "Quota"}
            pre == Filter(config.policies, request_kinds)
            post == Filter(config.policies, {"JavaScript"})
            stages == StagesOf(ret)
            pre_flow == PreFlowOf(stages)
            post_flow == PostFlowOf(stages)
        IN /\ StepNames(RequestOf(pre_flow)) = pre
           /\ StepNames(ResponseOf(pre_flow)) = <<>>
           /\ StepNames(RequestOf(post_flow)) = <<>>
           /\ StepNames(ResponseOf(post_flow)) = post
           /\ StepNames(stages) = pre \o post

C12_Witness ==
    /\ pc = "generate_proxy_endpoint_xml"
    /\ config.policies = <<"JavaScript", "Quota">>
    /\ StepNames(RequestOf(PreFlowOf(ret))) = <<"Quota">>
    /\ StepNames(ResponseOf(PostFlowOf(ret))) = <<"JavaScript">>

FaultSteps == {"AM-InvalidAPIKey", "AM-GenericError"}

\* C13: for policy lists over the policy kinds, the endpoint descriptor
\* references the steps AM-InvalidAPIKey and AM-GenericError if and only if
\* VerifyAPIKey is in the policy list; the bundle has no policies/ file for
\* either of them; and without VerifyAPIKey every step name referenced in
\* proxies/default.xml has its policies/<name>.xml in the bundle.
C13_FaultSteps ==
    LET has_key == "VerifyAPIKey" \in Range(config.policies)
    IN /\ pc = "generate_proxy_endpoint_xml" =>
              \A f \in FaultSteps : (f \in Range(StepNames(ret))) <=> has_key
       /\ pc = "create_proxy_bundle" =>
              LET referenced ==
                      Range(StepNames(ret["apiproxy/proxies/default.xml"]))
              IN /\ \A f \in FaultSteps :
                        /\ (f \in referenced) <=> has_key
                        /\ ("apiproxy/policies/" \o f \o ".xml")
                               \notin DOMAIN ret
                 /\ ~has_key =>
                        \A n \in referenced :
                            ("apiproxy/policies/" \o n \o ".xml")
                                \in DOMAIN ret

C13_Witness ==
    /\ pc = "create_proxy_bundle"
    /\ config.policies = <<"VerifyAPIKey", "CORS">>
    /\ "AM-GenericError"
           \in Range(StepNames(ret["apiproxy/proxies/default.xml"]))
    /\ "apiproxy/policies/AM-GenericError.xml" \notin DOMAIN ret
    /\ "apiproxy/policies/CORS.xml" \in DOMAIN ret

\* C14: for every config produced by analyze_request the archive of
\* create_proxy_bundle has exactly the entries apiproxy/<name>.xml,
\* apiproxy/proxies/default.xml, apiproxy/targets/default.xml, one
\* apiproxy/policies/<Kind>.xml per detected policy, and
\* apiproxy/resources/jsc/transformation.js iff JavaScript is detected.
C14_BundleEntries ==
    (pc = "create_proxy_bundle" /\ config = analyze_request(message)) =>
        LET detected == Range(detect_policies(message))
            name == extract_proxy_details(message).name
        IN DOMAIN ret =
               {"apiproxy/" \o name \o ".xml",
                "apiproxy/proxies/default.xml",
                "apiproxy/targets/default.xml"}
               \cup {"apiproxy/policies/" \o k \o ".xml" : k \in detected}
               \cup (IF "JavaScript" \in detected
                     THEN {"apiproxy/resources/jsc/transformation.js"}
                     ELSE {})

C14_Witness ==
    /\ pc = "create_proxy_bundle"
    /\ message = "named my-x cors combine "
    /\ config = analyze_request(message)
    /\ DOMAIN ret =
           {"apiproxy/my-x.xml", "apiproxy/proxies/default.xml",
            "apiproxy/targets/default.xml", "apiproxy/policies/CORS.xml",
            "apiproxy/policies/JavaScript.xml",
            "apiproxy/resources/jsc/transformation.js"}

(***************************************************************************)
(* The service: deployments and chats.                                     *)
(***************************************************************************)
\* the /confirm-action requests that called deploy_to_apigee and returned
DeployCalls ==
    {i \in 1..Len(requests) :
        /\ requests[i].path = "/confirm-action"
        /\ requests[i].state = "responded"
        /\ requests[i].body.user_confirmation
        /\ requests[i].body.action = "create_proxy"}

\* the token argument of the call
TokenOf(i) == Get(requests[i].body.details, "token", None)

UploadsBy(i) == {n \in 1..Len(uploads) : uploads[n].by = i}

\* the /chat requests whose worker thread was started
StartedChats ==
    {i \in 1..Len(requests) :
        requests[i].path = "/chat" /\ requests[i].worker # "idle"}

\* C15: when an access token is available (the upload is sent and
\* answered), deploy_to_apigee returns success = true if and only if the
\* status of the response is below 400, whatever the body is; with a status
\* of 400 or above the message contains the status code and the body text.
C15_SuccessIffBelow400 ==
    \A i \in DeployCalls :
        (requests[i].net # None /\ requests[i].net[1].exception = None) =>
            LET r == requests[i].response[1]
                n == requests[i].net[1]
            IN /\ r.success <=> n.status_code < 400
               /\ n.status_code >= 400 =>
                      /\ Contains(r.message, ToString(n.status_code))
                      /\ Contains(r.message, n.text)

\* C16: deploy_to_apigee never raises to its caller and never retries: on
\* a missing token, a bundle-building error, a transport exception or an
\* HTTP error status it returns a result with success = false whose message
\* carries the error text, and each call issues at most one upload request.
C16_FailureReported ==
    \A i \in DeployCalls :
        LET r == requests[i].response[1]
            details == requests[i].body.details
            net == requests[i].net
        IN /\ DOMAIN r \in {{"success", "message"},
                            {"success", "message", "proxy_name",
                             "organization", "test_url"}}
           /\ Cardinality(UploadsBy(i)) <= 1
           /\ Cardinality(UploadsBy(i)) = 1 <=> net # None
           /\ MissingKey(details) # None =>
                  /\ ~r.success
                  /\ Contains(r.message, "'" \o MissingKey(details)[1] \o "'")
           /\ (MissingKey(details) = None /\ net = None) =>
                  /\ ~r.success
                  /\ Contains(r.message, "No Apigee access token available")
           /\ (net # None /\ net[1].exception # None) =>
                  /\ ~r.success
                  /\ Contains(r.message, net[1].exception[1])
           /\ (net # None /\ net[1].exception = None
               /\ net[1].status_code >= 400) =>
                  /\ ~r.success
                  /\ Contains(r.message, ToString(net[1].status_code))
                  /\ Contains(r.message, net[1].text)

\* two calls have returned: one found no token, the other an error status
C16_Witness ==
    \E i, j \in DeployCalls :
        /\ MissingKey(requests[i].body.details) = None
        /\ requests[i].net = None
        /\ ~requests[i].response[1].success
        /\ requests[j].net # None
        /\ requests[j].net[1].exception = None
        /\ requests[j].net[1].status_code = 503
        /\ requests[j].response[1].message =
               "Failed to create proxy: API error 503: unavailable"
        /\ Cardinality(UploadsBy(j)) = 1

\* C17: after any deploy_to_apigee call returns, successful or failed, with
\* or without a token argument, APIGEE_TOKEN has the value (or the absence)
\* it had before the call; so a later call without a token never
\* authenticates with a token supplied to an earlier call.
C17_TokenRestored ==
    /\ [][environ' = environ]_vars
    /\ [](\A i \in DeployCalls :
              ~Truthy(TokenOf(i)) =>
                  \A n \in UploadsBy(i) :
                      uploads[n].request.headers.Authorization
                          \notin {"Bearer " \o t : t \in Tokens})

C19_NoSharedChatState ==
    \A i \in StartedChats :
        \A n \in 1..Len(requests[i].history) :
            requests[i].history[n].by = i

\* C20: a /chat request whose processing exceeds its timeout (30 seconds in
\* ask mode, 45 seconds in agent mode) is answered with the generic timeout
\* response: success = false, requires_confirmation = false, no action and
\* no details; so no confirm step carries the descriptor of a timed-out
\* creation request.
C20_TimeoutResponse ==
    \A i \in StartedChats :
        LET mode == requests[i].body.mode
            limit == IF mode = "ask" THEN 30 ELSE 45
        IN (requests[i].duration > limit
            /\ requests[i].state = "responded") =>
               LET r == requests[i].response[1]
               IN /\ r.response = "Request timeout. Please try again."
                  /\ ~r.success
                  /\ ~r.requires_confirmation
                  /\ DOMAIN r = {"response", "mode", "success",
                                 "requires_confirmation"}
                  /\ \A j \in 1..Len(requests) :
                         requests[j].path = "/confirm-action" =>
                             requests[j].source # i

\* a creation request in agent mode took 50 seconds: it was answered with
\* the timeout response, and its worker thread has returned since
C20_Witness ==
    \E i \in StartedChats :
        /\ requests[i].body.mode = "agent"
        /\ is_creation_request(requests[i].body.message)
        /\ requests[i].duration = 50
        /\ requests[i].worker = "done"
        /\ requests[i].response = <<TimeoutResponse("agent")>>

\* C22: an upload to Apigee happens only inside a /confirm-action request
\* with user_confirmation = true and action = "create_proxy": no /chat
\* request performs an upload, a declined confirmation returns the cancelled
\* response without uploading, and an unknown action returns
\* success = false without uploading.
C22_UploadOnlyWhenConfirmed ==
    /\ \A n \in 1..Len(uploads) :
           LET r == requests[uploads[n].by]
           IN /\ r.path = "/confirm-action"
              /\ r.body.user_confirmation
              /\ r.body.action = "create_proxy"
    /\ \A i \in 1..Len(requests) :
           (requests[i].path = "/confirm-action"
            /\ requests[i].state = "responded") =>
               /\ ~requests[i].body.user_confirmation =>
                      requests[i].response =
                          <<[response |-> "Action cancelled",
                             success |-> TRUE]>>
               /\ (requests[i].body.user_confirmation
                   /\ requests[i].body.action # "create_proxy") =>
                      ~requests[i].response[1].success

\* a creation request was answered in agent mode, the confirmation that
\* echoes its action and details was handled, and the one upload is its
C22_Witness ==
    \E i, j \in 1..Len(requests) :
        /\ requests[i].path = "/chat"
        /\ requests[i].state = "responded"
        /\ requests[i].response[1].requires_confirmation
        /\ requests[j].path = "/confirm-action"
        /\ requests[j].source = i
        /\ requests[j].state = "responded"
        /\ Len(uploads) = 1
        /\ uploads[1].by = j

(***************************************************************************)
(* The extractor, pattern by pattern.                                      *)
(***************************************************************************)
\* a non-empty string of decimal digits
IsDigits(s) == Len(s) > 0 /\ \A i \in 1..Len(s) : Ch(s, i) \in Digits

\* the rate patterns that match the lower-cased text
RateMatches(msg) ==
    {k \in 1..RatePatternCount : RateSearch(k, Lower(msg)).ok}

\* "<digits>ps", the digits being the capture of the first matching pattern
RateOfFirstMatch ==
    LET K == RateMatches(message)
    IN /\ EndsWith(ret, "ps")
       /\ IsDigits(SubSeq(ret, 1, Len(ret) - 2))
       /\ K # {} =>
              ret = RateSearch(Min(K), Lower(message)).group \o "ps"

\* C23: extract_spike_arrest_rate always returns a string of one or more
\* decimal digits followed by "ps": the digits are the number captured by
\* the first pattern, in declared priority order, that matches, and the
\* result is "10ps" whenever the text contains no number attached to a
\* per-second unit ("N requests per sec", "N per sec", "N per second",
\* "Nps"), which are the first four patterns.
C23_Original ==
    pc = "extract_spike_arrest_rate" =>
        /\ RateOfFirstMatch
        /\ RateMatches(message) \cap 1..4 = {} => ret = "10ps"

\* C23, amended: the result is "10ps" whenever the text contains no number
\* attached to a per-second unit, no number after "spike arrest" on the
\* same line (pattern 5) and no number followed by "req" and, later on the
\* line, "sec" (pattern 6).
C23_Amended ==
    pc = "extract_spike_arrest_rate" =>
        /\ RateOfFirstMatch
        /\ RateMatches(message) = {} => ret = "10ps"

\* a number after "spike arrest", without a unit, is the rate
C23_Witness ==
    /\ pc = "extract_spike_arrest_rate"
    /\ message = "spike arrest4"
    /\ RateMatches(message) = {5}
    /\ ret = "4ps"

TriggerVerbs == {"combine", "transform", "modify", "add"}

IntentMatches(msg) ==
    {k \in 1..IntentPatternCount : IntentSearch(k, Lower(msg)).ok}

\* the capture of the first matching pattern, trimmed: a piece of the
\* lower-cased text without a period and without blanks around it
IntentOfFirstMatch ==
    LET K == IntentMatches(message)
    IN K # {} =>
           /\ ret = Strip(IntentSearch(Min(K), Lower(message)).group,
                          Whitespace)
           /\ Contains(Lower(message), ret)
           /\ ~Contains(ret, ".")
           /\ ret = Strip(ret, Whitespace)

\* C24: extract_transformation_intent returns the text that follows the
\* highest-priority matching trigger verb ("combine", then "transform",
\* "modify", "add") up to the next period, trimmed; for every text that
\* contains none of these four trigger verbs it returns the default
\* "custom data transformation".
C24_Original ==
    pc = "extract_transformation_intent" =>
        /\ IntentOfFirstMatch
        /\ (\A verb \in TriggerVerbs : ~Contains(Lower(message), verb)) =>
               ret = "custom data transformation"

\* C24, amended: the default is returned for every text that contains none
\* of the four trigger verbs and not the word "javascript"; after
\* "javascript", the text that follows the first "to" or "that" of the line
\* is returned (the fifth pattern).
C24_Amended ==
    pc = "extract_transformation_intent" =>
        /\ IntentOfFirstMatch
        /\ (/\ \A verb \in TriggerVerbs : ~Contains(Lower(message), verb)
            /\ ~Contains(Lower(message), "javascript")) =>
               ret = "custom data transformation"
        /\ IntentMatches(message) = {} => ret = "custom data transformation"

\* no trigger verb, and the text after "javascript to" is the intent
C24_Witness ==
    /\ pc = "extract_transformation_intent"
    /\ message = "javascript to x"
    /\ \A verb \in TriggerVerbs : ~Contains(message, verb)
    /\ ret = "x"

\* the candidate of url_patterns[k]: its capture without trailing ".,;"
UrlCandidate(msg, k) ==
    RStrip(UrlSearch(k, msg, Lower(msg)).group, {".", ",", ";"})

\* the URL patterns that match the text, and those whose candidate is
\* longer than 10 characters and holds a "."
UrlMatches(msg) ==
    {k \in 1..UrlPatternCount : UrlSearch(k, msg, Lower(msg)).ok}

UrlAcceptedMatches(msg) ==
    {k \in UrlMatches(msg) :
        /\ Len(UrlCandidate(msg, k)) > 10
        /\ \E i \in 1..Len(UrlCandidate(msg, k)) :
               Ch(UrlCandidate(msg, k), i) = "."}

\* C25: in URL extraction the patterns are tried in declared order; the
\* candidate of a pattern is accepted only if, after stripping trailing ".",
\* "," and ";", it is longer than 10 characters and contains "."; a rejected
\* candidate makes extraction continue with the next pattern; the returned
\* target_url is the first accepted candidate, or the default when none is
\* accepted, and it never ends with ".", "," or ";".
C25_FirstAcceptedUrl ==
    pc = "extract_proxy_details" =>
        LET K == UrlAcceptedMatches(message)
        IN /\ K = {} => ret.target_url = "https://mocktarget.apigee.net/json"
           /\ K # {} => ret.target_url = UrlCandidate(message, Min(K))
           /\ \A c \in {".", ",", ";"} : ~EndsWith(ret.target_url, c)

\* "pointing to" yields a candidate of 10 characters, which is rejected;
\* the search goes on and "backend" yields the URL, its final "." stripped
C25_Witness ==
    /\ pc = "extract_proxy_details"
    /\ UrlMatches(message) = {3, 5, 7}
    /\ UrlCandidate(message, 3) = "http://a.b"
    /\ UrlAcceptedMatches(message) = {5}
    /\ EndsWith(UrlSearch(5, message, Lower(message)).group, ".")
    /\ ret.target_url = "https://real.example.com/x"

\* the name patterns that match the lower-cased text
NameMatches(msg) ==
    {k \in 1..NamePatternCount : NameSearch(k, Lower(msg)).ok}

\* the capture of the first matching pattern, which holds no space
NameOfFirstMatch ==
    LET K == NameMatches(message)
    IN /\ K # {} => ret.name = NameSearch(Min(K), Lower(message)).group
       /\ \A i \in 1..Len(ret.name) : Ch(ret.name, i) # " "

\* C26: name extraction takes the capture of the first pattern, in declared
\* priority order, that matches: an explicit "named X" wins over "called X",
\* both win over the generic "proxy X", the generic "proxy X" pattern is the
\* last one tried (no pattern is consulted after it), and the resulting name
\* never contains a space.
C26_Original ==
    pc = "extract_proxy_details" =>
        /\ NameOfFirstMatch
        /\ NameMatches(message) \cap 1..3 = {} =>
               ret.name = "generated-proxy"

\* C26, amended: after the generic "proxy X" the patterns "create ... named
\* X" and "create ... X ... proxy|api" and two patterns written with capital
\* letters are consulted.  Of these only "create ... X ... proxy|api" can be
\* the first to match: the fourth needs a "named X", which the first takes,
\* and the capitals never occur in the lower-cased text.  The default name
\* is returned only when no pattern matches.
C26_Amended ==
    pc = "extract_proxy_details" =>
        LET K == NameMatches(message)
        IN /\ NameOfFirstMatch
           /\ K = {} => ret.name = "generated-proxy"
           /\ K # {} => Min(K) \in {1, 2, 3, 5}
           /\ K \cap {6, 7} = {}

\* "named", "called" and "proxy" all match, with three different captures,
\* and the capture of "named" is the name
C26_Witness ==
    /\ pc = "extract_proxy_details"
    /\ {1, 2, 3} \subseteq NameMatches(message)
    /\ NameSearch(1, Lower(message)).group = "a-api"
    /\ NameSearch(2, Lower(message)).group = "b-api"
    /\ NameSearch(3, Lower(message)).group = "called"
    /\ ret.name = "a-api"

\* lit stands in s as words of their own: a blank or the start before it,
\* then a blank, the end, or a punctuation mark that ends a word
MentionsWords(s, lit) ==
    \E i \in 1..(Len(s) - Len(lit) + 1) :
        LET j == i + Len(lit)
        IN /\ At(s, lit, i)
           /\ i = 1 \/ Ch(s, i - 1) \in Whitespace
           /\ \/ j > Len(s)
              \/ Ch(s, j) \in Whitespace
              \/ /\ Ch(s, j) \in {".", ",", ";", ":", "!", "?"}
                 /\ j = Len(s) \/ Ch(s, j + 1) \in Whitespace

\* C29: VerifyAPIKey and CORS are detected only when the request explicitly
\* mentions them: a text in which the letters of a policy keyword occur only
\* inside a larger token, such as the proxy name or the target URL, does not
\* get that policy.  The code tests "cors" in message_lower, a substring
\* test: "Create a proxy named cors-gateway" gets CORS.
C29_OnlyWhenMentioned ==
    pc = "detect_policies" =>
        \A kind \in {"VerifyAPIKey", "CORS"} :
            (\E i \in 1..Len(ret) : ret[i] = kind) =>
                \E phrase \in PhrasesOf(kind) :
                    MentionsWords(Lower(message), phrase)

\* the preview shows text, whole, in a fenced block under the heading
ShownIn(preview, heading, lang, text) ==
    Contains(preview,
             heading \o "\n" \o Fence \o lang \o "\n" \o text \o "\n" \o Fence)

\* the number of fences of a preview
FenceCount(preview) ==
    Cardinality({i \in 1..(Len(preview) - Len(Fence) + 1) :
                    At(preview, Fence, i)})

\* C30: what is previewed is what is deployed: for every message, the proxy,
\* endpoint, target and per-policy descriptor texts and the script shown by
\* generate_configuration_preview(message) are identical to the file
\* contents that create_proxy_bundle writes for the config of
\* analyze_request(message), including the SpikeArrest rate; the preview has
\* one fenced block per file of the bundle.
C30_PreviewIsBundle ==
    (pc = "create_proxy_bundle" /\ config = analyze_request(message)) =>
        \A preview \in {generate_configuration_preview(message)} :
            /\ ShownIn(preview, "**Main Proxy XML:**", "xml",
                       ret["apiproxy/" \o config.proxy_details.name \o ".xml"])
            /\ ShownIn(preview, "**Proxy Endpoint XML:**", "xml",
                       ret["apiproxy/proxies/default.xml"])
            /\ ShownIn(preview, "**Target Endpoint XML:**", "xml",
                       ret["apiproxy/targets/default.xml"])
            /\ \A i \in 1..Len(config.policies) :
                   ShownIn(preview, "**" \o config.policies[i] \o " Policy:**",
                           "xml",
                           ret["apiproxy/policies/" \o config.policies[i]
                               \o ".xml"])
            /\ "apiproxy/resources/jsc/transformation.js" \in DOMAIN ret =>
                   ShownIn(preview, "**JavaScript Code (transformation.js):**",
                           "javascript",
                           ret["apiproxy/resources/jsc/transformation.js"])
            /\ FenceCount(preview) = 2 * Cardinality(DOMAIN ret)

\* a request with a spike arrest rate of its own and a script: the bundle
\* holds the rate of the request
C30_Witness ==
    /\ pc = "create_proxy_bundle"
    /\ message = "spike 4ps combine "
    /\ config = analyze_request(message)
    /\ Contains(ret["apiproxy/policies/SpikeArrest.xml"], "<Rate>4ps</Rate>")
    /\ "apiproxy/resources/jsc/transformation.js" \in DOMAIN ret

\* the message holds a creation word and a resource word, in any case
AsksForCreation(msg) ==
    /\ \/ Contains(Lower(msg), "create")
       \/ Contains(Lower(msg), "build")
       \/ Contains(Lower(msg), "generate")
       \/ Contains(Lower(msg), "make")
    /\ \/ Contains(Lower(msg), "proxy")
       \/ Contains(Lower(msg), "api")
       \/ Contains(Lower(msg), "endpoint")

\* C28: AgentMode.run returns requires_confirmation = true exactly when the
\* agent has been set up and the message contains one of the creation words
\* (create, build, generate, make) and one of the resource words (proxy,
\* api, endpoint); every such response has success = true, action =
\* "create_proxy" and details carrying proxy_details, policies and
\* original_message of the analyzed request; when the agent is not set up,
\* every message, creation request or not, gets success = false and
\* requires_confirmation = false without any extraction.
C28_ConfirmationIffCreation ==
    pc = "agent_mode_run" =>
        /\ ret.requires_confirmation <=>
               (agents.agent_mode.agent /\ AsksForCreation(message))
        /\ ret.requires_confirmation =>
               /\ ret.success
               /\ ret.action = "create_proxy"
               /\ ret.details.proxy_details = extract_proxy_details(message)
               /\ ret.details.policies = detect_policies(message)
               /\ ret.details.original_message = message
        /\ ~agents.agent_mode.agent =>
               /\ ~ret.success
               /\ ~ret.requires_confirmation
               /\ DOMAIN ret =
                      {"response", "mode", "success", "requires_confirmation"}

\* capitals in both words, and a policy found in the text
C28_Witness ==
    /\ pc = "agent_mode_run"
    /\ message = "Make API"
    /\ agents.agent_mode.agent
    /\ ret.requires_confirmation
    /\ ret.action = "create_proxy"
    /\ ret.details.original_message = "Make API"

\* what json.loads makes of the reply of the model
ReplyDocument == json_loads(JsonText(Strip(reply.output, Whitespace)))

\* C21: when the model output is missing, malformed or not JSON,
\* _parse_creation_request does not raise and returns the descriptor that
\* the regex-based Extractor (extract_proxy_details and detect_policies)
\* produces for the same message: the same name, target_url, base_path and
\* the same policy list in the same order.  The except branch has patterns
\* of its own: for "Create a proxy named My-Api with api key and cors" it
\* returns the name "My-Api" and the policies CORS, VerifyAPIKey.
C21_FallbackIsExtractor ==
    (/\ pc = "parse_creation_request"
     /\ reply.exception # None \/ ~ReplyDocument.ok) =>
        /\ ret.proxy_name = JStr(extract_proxy_details(message).name)
        /\ ret.target_url = JStr(extract_proxy_details(message).target_url)
        /\ ret.base_path = JStr(extract_proxy_details(message).base_path)
        /\ ret.policies = JList(detect_policies(message))

\* C27: when the model returns a valid JSON object, _parse_creation_request
\* returns a descriptor meeting the Extractor contract: base_path begins
\* with "/", and when the JSON gives no base path it equals "/" followed by
\* the returned proxy_name (whether the name came from the key "proxy_name"
\* or "name"); policies is a list.  The default base path is built from the
\* key "proxy_name" alone: {"name": "orders"} yields "/generated-proxy".
C27_DescriptorContract ==
    (/\ pc = "parse_creation_request"
     /\ reply.exception = None
     /\ ReplyDocument.ok /\ ReplyDocument.is_object) =>
        /\ ret.base_path.type = "str"
        /\ StartsWith(ret.base_path.str, "/")
        /\ (/\ ~JTruthy(Get(ReplyDocument.obj, "base_path", JNull))
            /\ ~JTruthy(Get(ReplyDocument.obj, "path", JNull))) =>
               ret.base_path.str = "/" \o PyStr(ret.proxy_name)
        /\ ret.policies.type = "list"

====
